---- MODULE Spec2Model ----
(***************************************************************************)
(* NodeChain: the Block / Blockchain engine (src/models/block.js,          *)
(* src/models/blockchain.js), its file (src/utils/fileManager.js) and its  *)
(* REST API (src/controllers/blockController.js) as a state machine.       *)
(*                                                                         *)
(* Strings are sequences of characters.  Every decimal digit and every     *)
(* hex digit is a character of its own, so that the concatenations of      *)
(* calculateHash meet exactly as they do in JavaScript; a fixed piece of   *)
(* text that can meet no digit boundary (a JSON key, a quoted name, the    *)
(* constant part of an ISO date) is written as one character.              *)
(***************************************************************************)
EXTENDS Integers, Sequences, FiniteSets, TLC

VARIABLES
  chain,       \* Blockchain.chain: the sequence of blocks
  difficulty,  \* Blockchain.difficulty
  now,         \* the clock new Date() reads
  ret,         \* the call just made on the chain and what it handed back
  tampered,    \* the mutations made to stored blocks from outside the class
  miner,       \* a Block constructor run step by step: its place and its block
  file,        \* blockchain.json: what the file system holds
  reqs,        \* the HTTP requests the server is handling, and their responses
  backups      \* the blockchain-backup-<time>.json files: the contents copied

vars == <<chain, difficulty, now, ret, tampered, miner, file, reqs, backups>>

(***************************************************************************)
(* Bounds of the model.                                                    *)
(***************************************************************************)
MaxBlocks == 3
MaxClock == 1
\* The nonce at which nonce++ no longer changes it (2^53 in JavaScript).
MaxNonce == 600

Min(a, b) == IF a < b THEN a ELSE b

(***************************************************************************)
(* JavaScript values and their conversion to strings.                      *)
(***************************************************************************)
DigitChars == <<"0", "1", "2", "3", "4", "5", "6", "7", "8", "9">>

\* Number.prototype.toString for a non-negative integer: its decimal digits.
RECURSIVE NumToString(_)
NumToString(n) ==
  IF n < 10 THEN <<DigitChars[n + 1]>>
  ELSE NumToString(n \div 10) \o <<DigitChars[(n % 10) + 1]>>

\* Date.prototype.toISOString: YYYY-MM-DDTHH:mm:ss.sssZ, a fixed-width text.
\* The clock of the model counts milliseconds within one second.
toISOString(t) ==
  <<"2", "0", "2", "5", "-01-01T00:00:00.">>
    \o <<DigitChars[((t \div 100) % 10) + 1],
         DigitChars[((t \div 10) % 10) + 1],
         DigitChars[(t % 10) + 1]>>
    \o <<"Z">>

\* JavaScript values.  An object is the sequence of its <<key, value>> pairs
\* in insertion order, a key being written as JSON writes it, with its quotes
\* and colon ("\"amount\":"); a string is the sequence of its characters.
Num(n) == [t |-> "number", n |-> n, s |-> <<>>, o |-> <<>>]
Str(s) == [t |-> "string", n |-> 0, s |-> s, o |-> <<>>]
Obj(o) == [t |-> "object", n |-> 0, s |-> <<>>, o |-> o]
Infinity == [t |-> "infinity", n |-> 0, s |-> <<>>, o |-> <<>>]
Null == [t |-> "null", n |-> 0, s |-> <<>>, o |-> <<>>]
Undefined == [t |-> "undefined", n |-> 0, s |-> <<>>, o |-> <<>>]
BigInt == [t |-> "bigint", n |-> 0, s |-> <<>>, o |-> <<>>]
NaN == [t |-> "nan", n |-> 0, s |-> <<>>, o |-> <<>>]
\* The number n + 1/2.
Frac(n) == [t |-> "fraction", n |-> n, s |-> <<>>, o |-> <<>>]

\* The result of a call that throws.
Throws == <<"!throws">>

\* A quoted JSON string (no text of the model needs an escape).
Quote(s) == <<"\"">> \o s \o <<"\"">>

\* JSON.stringify.  A non-finite number is written null, a key whose value is
\* undefined is left out, a BigInt makes the call throw (TypeError).
RECURSIVE JSONstringify(_)
RECURSIVE JSONmembers(_, _)
JSONmembers(o, first) ==
  IF o = <<>> THEN <<>>
  ELSE IF o[1][2].t = "undefined" THEN JSONmembers(Tail(o), first)
  ELSE LET v == JSONstringify(o[1][2])
           rest == JSONmembers(Tail(o), FALSE)
       IN IF v = Throws \/ rest = Throws THEN Throws
          ELSE (IF first THEN <<>> ELSE <<",">>)
                 \o <<o[1][1]>> \o v \o rest

JSONstringify(v) ==
  CASE v.t = "number" -> NumToString(v.n)
    [] v.t = "string" -> Quote(v.s)
    [] v.t = "infinity" -> <<"null">>
    [] v.t = "null" -> <<"null">>
    [] v.t = "undefined" -> <<"undefined">>
    [] v.t = "bigint" -> Throws
    [] v.t = "object" ->
         LET m == JSONmembers(v.o, TRUE)
         IN IF m = Throws THEN Throws ELSE <<"{">> \o m \o <<"}">>

(***************************************************************************)
(* crypto.createHash('sha256').update(s).digest('hex').                    *)
(*                                                                         *)
(* SHA-256 is modelled as an ideal hash: the digest starts with HashLen    *)
(* hex digits computed from the whole input, which is what proof-of-work   *)
(* looks at, and it carries its input after them, so that two inputs       *)
(* have the same digest only if they are the same string.  The model is    *)
(* scaled down: HashLen digits instead of 64, each one of DigestChars      *)
(* instead of one of the sixteen hex digits.                               *)
(***************************************************************************)
HashLen == 3
DigestChars == <<"0", "1", "2", "3">>
Radix == Len(DigestChars)

CharCode ==
  "0" :> 0 @@ "1" :> 1 @@ "2" :> 2 @@ "3" :> 3 @@ "4" :> 4 @@ "5" :> 5 @@
  "6" :> 6 @@ "7" :> 7 @@ "8" :> 8 @@ "9" :> 9 @@ "a" :> 10 @@ "b" :> 11 @@
  "c" :> 12 @@ "d" :> 13 @@ "e" :> 14 @@ "f" :> 15 @@ "Z" :> 16 @@
  "-01-01T00:00:00." :> 17 @@ "\"" :> 18 @@ ":" :> 19 @@ "," :> 20 @@
  "{" :> 21 @@ "}" :> 22 @@ "null" :> 23 @@ "undefined" :> 24 @@
  "\"sender\":" :> 25 @@ "\"receiver\":" :> 26 @@ "\"amount\":" :> 27 @@ "\"metadata\":" :> 28 @@
  "\"timestamp\":" :> 29 @@ "\"transactionId\":" :> 30 @@ "Genesis" :> 31 @@
  "genesis_block" :> 32 @@ "Alice" :> 33 @@ "Bob" :> 34 @@ "#" :> 35 @@
  "x" :> 36 @@ " " :> 37 @@ "tx_" :> 38 @@ "_" :> 39

RECURSIVE Power(_, _)
Power(b, e) == IF e = 0 THEN 1 ELSE b * Power(b, e - 1)

MixModulus == Power(Radix, HashLen)

\* b^e modulo MixModulus.
RECURSIVE PowMod(_, _)
PowMod(b, e) ==
  IF e = 0 THEN 1 % MixModulus
  ELSE LET h == PowMod(b, e \div 2)
       IN IF e % 2 = 0 THEN (h * h) % MixModulus ELSE (h * h * b) % MixModulus

\* The compression of the characters lo..hi of the input: the polynomial
\* sum of (CharCode + 7) * 31^(hi - i) modulo MixModulus, by halves.
RECURSIVE MixRange(_, _, _)
MixRange(s, lo, hi) ==
  IF lo > hi THEN 0
  ELSE IF lo = hi THEN (CharCode[s[lo]] + 7) % MixModulus
  ELSE LET mid == (lo + hi) \div 2
       IN (MixRange(s, lo, mid) * PowMod(31, hi - mid) + MixRange(s, mid + 1, hi))
            % MixModulus

\* The leading hex digits of the digest, the low-order digit first.
HexOf(v) ==
  [i \in 1..HashLen |-> DigestChars[((v \div Power(Radix, i - 1)) % Radix) + 1]]

sha256(s) == HexOf(MixRange(s, 1, Len(s))) \o <<"#">> \o s

(***************************************************************************)
(* Block (src/models/block.js).                                            *)
(***************************************************************************)

\* Array(n + 1).join('0'): n zeros.
Zeros(n) == [i \in 1..n |-> "0"]

\* String.prototype.substring(0, n).
substring0(s, n) == SubSeq(s, 1, Min(n, Len(s)))

\* Block.calculateHash: the digest of
\* index + timestamp.toISOString() + JSON.stringify(data) + previousHash + nonce.
blockString(b) ==
  NumToString(b.index) \o toISOString(b.timestamp) \o JSONstringify(b.data)
    \o b.previousHash \o NumToString(b.nonce)

\* calculateHash hashing the difficulty of the block too.
calculateHashWithDifficulty(b) ==
  IF JSONstringify(b.data) = Throws THEN Throws
  ELSE sha256(blockString(b) \o NumToString(b.difficulty))

calculateHash(b) ==
  IF JSONstringify(b.data) = Throws THEN Throws ELSE sha256(blockString(b))

\* nonce++ on a JavaScript number: it stops counting at MaxNonce.
Increment(n) == IF n < MaxNonce THEN n + 1 ELSE n

\* The result of a call that never returns: the loop has come to a nonce
\* that nonce++ leaves as it is, and tries the same digest for ever.
Diverges == <<"!diverges">>

\* Block.mineBlock's loop between the nonces lo and hi: the first nonce in
\* lo..hi whose digest starts with the target, -1 when there is none.  The
\* nonces are tried in ascending order, as the loop tries them; the range is
\* halved to keep the evaluation shallow.
RECURSIVE firstNonce(_, _, _)
firstNonce(b, lo, hi) ==
  IF lo = hi
    THEN LET target == Zeros(b.difficulty)
             hash == calculateHash([b EXCEPT !.nonce = lo])
         IN IF substring0(hash, b.difficulty) = target THEN lo ELSE -1
  ELSE LET mid == (lo + hi) \div 2
           left == firstNonce(b, lo, mid)
       IN IF left # -1 THEN left ELSE firstNonce(b, mid + 1, hi)

\* Block.mineBlock: try the nonces in turn, stop at the first digest that
\* starts with the target.  Yields the block with its hash set; the hash is
\* Throws when calculateHash throws, and Diverges when the call does not
\* return: no nonce up to MaxNonce passes, and nonce++ stays at MaxNonce.
mineBlock(b) ==
  IF calculateHash(b) = Throws THEN [b EXCEPT !.hash = Throws]
  ELSE LET nonce == firstNonce(b, b.nonce, MaxNonce)
       IN IF nonce = -1 THEN [b EXCEPT !.hash = Diverges]
          ELSE LET mined == [b EXCEPT !.nonce = nonce]
               IN [mined EXCEPT !.hash = calculateHash(mined)]

\* The constructor returned: mining neither threw nor is still running.
Returned(b) == b.hash \notin {Throws, Diverges}

\* new Block(index, data, previousHash, difficulty), created at time t.
NewBlock(index, data, previousHash, d, t) ==
  mineBlock([index |-> index, timestamp |-> t, data |-> data,
             previousHash |-> previousHash, nonce |-> 0, difficulty |-> d,
             hash |-> <<>>])

(***************************************************************************)
(* Blockchain (src/models/blockchain.js).  JavaScript position i of the    *)
(* chain is chain[i + 1].                                                  *)
(***************************************************************************)

\* createGenesisBlock giving the first block an empty previousHash.
createGenesisBlockNoLink(d, t0, t1) ==
  NewBlock(0, Obj(<<<<"\"sender\":", Str(<<"Genesis">>)>>>>), <<>>, d, t1)

\* Blockchain.createGenesisBlock, its two readings of the clock being t0, t1.
createGenesisBlock(d, t0, t1) ==
  LET genesisData ==
        Obj(<<<<"\"sender\":", Str(<<"Genesis">>)>>, <<"\"receiver\":", Str(<<"Genesis">>)>>,
              <<"\"amount\":", Num(0)>>,
              <<"\"metadata\":",
                Obj(<<<<"\"timestamp\":", Str(toISOString(t0))>>,
                      <<"\"transactionId\":", Str(<<"genesis_block">>)>>>>)>>>>)
  IN NewBlock(0, genesisData, <<"0">>, d, t1)

\* Blockchain.getLatestBlock.
getLatestBlock(c) == c[Len(c)]

\* addBlock linking the new block to the first block instead of the last.
addBlockLinksGenesis(c, d, data, t) ==
  LET previousBlock == getLatestBlock(c)
      newIndex == previousBlock.index + 1
      previousHash == c[1].hash
  IN NewBlock(newIndex, data, previousHash, d, t)

\* addBlock numbering the new block like the block before it.
addBlockSameIndex(c, d, data, t) ==
  LET previousBlock == getLatestBlock(c)
      newIndex == previousBlock.index
      previousHash == previousBlock.hash
  IN NewBlock(newIndex, data, previousHash, d, t)

\* addBlock mining the new block at a difficulty one lower than the chain's.
addBlockEasier(c, d, data, t) ==
  LET previousBlock == getLatestBlock(c)
      newIndex == previousBlock.index + 1
      previousHash == previousBlock.hash
  IN NewBlock(newIndex, data, previousHash, d - 1, t)

\* Blockchain.addBlock: the block it builds and, once built, pushes.
addBlock(c, d, data, t) ==
  LET previousBlock == getLatestBlock(c)
      newIndex == previousBlock.index + 1
      previousHash == previousBlock.hash
  IN NewBlock(newIndex, data, previousHash, d, t)

\* What a call hands back: a boolean, a number, a string, null, undefined,
\* the block object stored at position n of the chain, the Blockchain object
\* the program holds, or an exception.
RBool(b) == [kind |-> "boolean", b |-> b, n |-> 0, s |-> <<>>]
RNum(n) == [kind |-> "number", b |-> FALSE, n |-> n, s |-> <<>>]
RString(s) == [kind |-> "string", b |-> FALSE, n |-> 0, s |-> s]
RBlock(n) == [kind |-> "block", b |-> FALSE, n |-> n, s |-> <<>>]
RBlockchain == [kind |-> "blockchain", b |-> FALSE, n |-> 0, s |-> <<>>]
RNull == [kind |-> "null", b |-> FALSE, n |-> 0, s |-> <<>>]
RUndefined == [kind |-> "undefined", b |-> FALSE, n |-> 0, s |-> <<>>]
RThrows == [kind |-> "throws", b |-> FALSE, n |-> 0, s |-> <<>>]

\* Blockchain.isChainValid: the loop from position i on.
RECURSIVE isChainValidFrom(_, _, _)
isChainValidFrom(c, d, i) ==
  IF ~(i < Len(c)) THEN RBool(TRUE)
  ELSE LET currentBlock == c[i + 1]
           previousBlock == c[i]
           target == Zeros(d)
       IN IF calculateHash(currentBlock) = Throws THEN RThrows
          ELSE IF currentBlock.hash # calculateHash(currentBlock) THEN RBool(FALSE)
          ELSE IF currentBlock.previousHash # previousBlock.hash THEN RBool(FALSE)
          ELSE IF substring0(currentBlock.hash, d) # target THEN RBool(FALSE)
          ELSE isChainValidFrom(c, d, i + 1)

\* isChainValid without the test of the leading zeros.
isChainValidNoWork(c, d) ==
  RBool(\A i \in 1..(Len(c) - 1) :
          /\ c[i + 1].hash = calculateHash(c[i + 1])
          /\ c[i + 1].previousHash = c[i].hash)

\* isChainValid with its loop starting one block late.
isChainValidFromTwo(c, d) == isChainValidFrom(c, d, 2)

isChainValid(c, d) == isChainValidFrom(c, d, 1)

\* typeof.
typeof(v) ==
  CASE v.t \in {"number", "fraction", "nan", "infinity"} -> "number"
    [] v.t = "string" -> "string"
    [] v.t = "undefined" -> "undefined"
    [] v.t = "bigint" -> "bigint"
    [] OTHER -> "object"

\* v < k and v >= k for a number v and an integer k; both are false of NaN.
\* The number of a "fraction" is n + 1/2.
NumLt(v, k) == v.t \in {"number", "fraction"} /\ v.n < k
NumGe(v, k) == (v.t \in {"number", "fraction"} /\ v.n >= k) \/ v.t = "infinity"

\* Blockchain.getBlockByIndex.  this.chain[index] is undefined unless index
\* is the number of a position.
getBlockByIndex(c, index) ==
  IF typeof(index) # "number" \/ NumLt(index, 0) \/ NumGe(index, Len(c))
    THEN RNull
  ELSE IF index.t = "number" THEN RBlock(index.n)
  ELSE RUndefined

\* Blockchain.getBlockByHash: the scan from position i on.
RECURSIVE getBlockByHashFrom(_, _, _)
getBlockByHashFrom(c, hash, i) ==
  IF ~(i < Len(c)) THEN RNull
  ELSE IF c[i + 1].hash = hash.s THEN RBlock(i)
  ELSE getBlockByHashFrom(c, hash, i + 1)

\* !v: the values JavaScript takes for false.
Falsy(v) ==
  \/ v.t \in {"null", "undefined", "nan"}
  \/ (v.t = "string" /\ v.s = <<>>)
  \/ (v.t = "number" /\ v.n = 0)

\* getBlockByHash scanning from the last block down: it yields the
\* highest-positioned block that holds the digest.
getBlockByHashLast(c, hash) ==
  IF Falsy(hash) \/ typeof(hash) # "string" THEN RNull
  ELSE IF \E i \in 1..Len(c) : c[i].hash = hash.s
    THEN RBlock((CHOOSE i \in 1..Len(c) :
                   /\ c[i].hash = hash.s
                   /\ \A j \in (i + 1)..Len(c) : c[j].hash # hash.s) - 1)
  ELSE RNull

getBlockByHash(c, hash) ==
  IF Falsy(hash) \/ typeof(hash) # "string" THEN RNull
  ELSE getBlockByHashFrom(c, hash, 0)

\* Blockchain.getBlockCount.
getBlockCount(c) == Len(c)

(***************************************************************************)
(* Persistence (src/utils/fileManager.js).                                 *)
(***************************************************************************)

\* JSON.parse(JSON.stringify(v)): the value a file gives back for v.  A
\* non-finite number comes back as null, a key whose value is undefined
\* does not come back.
RECURSIVE JSONroundTrip(_)
RECURSIVE JSONroundTripMembers(_)
JSONroundTripMembers(o) ==
  IF o = <<>> THEN <<>>
  ELSE IF o[1][2].t = "undefined" THEN JSONroundTripMembers(Tail(o))
  ELSE <<<<o[1][1], JSONroundTrip(o[1][2])>>>> \o JSONroundTripMembers(Tail(o))

JSONroundTrip(v) ==
  CASE v.t \in {"infinity", "nan"} -> Null
    [] v.t = "object" -> Obj(JSONroundTripMembers(v.o))
    [] OTHER -> v

\* The value of a decimal digit.
DigitValue(c) == CHOOSE n \in 0..9 : DigitChars[n + 1] = c

\* new Date(s).getTime() for a text toISOString wrote.
DateParse(s) == DigitValue(s[6]) * 100 + DigitValue(s[7]) * 10 + DigitValue(s[8])

\* The properties of a block object of the file that loadBlockchain asks for.
BlockProps == {"index", "timestamp", "data", "previousHash", "hash", "nonce"}

\* saveBlockchain: the object written for one block.  JSON.stringify leaves
\* out a property whose value is undefined.
blockData(block) ==
  [index |-> block.index,
   timestamp |-> toISOString(block.timestamp),
   data |-> JSONroundTrip(block.data),
   previousHash |-> block.previousHash,
   hash |-> block.hash,
   nonce |-> block.nonce,
   props |-> IF block.data.t = "undefined" THEN BlockProps \ {"data"} ELSE BlockProps]

\* saveBlockchain: the file a successful fs.writeFile leaves.
blockchainData(c, d) ==
  [kind |-> "json",
   difficulty |-> Num(d),
   chain |-> [i \in 1..Len(c) |-> blockData(c[i])],
   saved |-> <<[chain |-> c, difficulty |-> d]>>]

\* saveBlockchain up to fs.writeFile: TRUE when blockchainData is built,
\* FALSE when building it throws (isChainValid() is called for metadata).
saveBlockchainPrepares(c, d) == isChainValid(c, d) # RThrows

\* backupBlockchain: fs.copyFile of blockchain.json to a new
\* blockchain-backup-<time>.json; false when there is no file to copy.
\* b is the set of backups there are.  (Nothing in the program calls it.)
backupBlockchain(f, b) ==
  IF f.kind = "absent" THEN [ok |-> FALSE, backups |-> b]
  ELSE [ok |-> TRUE, backups |-> b \cup {f}]

\* blockchainData.difficulty || 4, the 4 scaled with the length of a digest.
DefaultDifficulty == 2

\* What loadBlockchain comes to: the promise resolves to a Blockchain
\* (val = RBlockchain, with its chain and difficulty), resolves to null, or
\* never settles because a constructor it calls never returns.
RNever == [kind |-> "never", b |-> FALSE, n |-> 0, s |-> <<>>]
LoadResult(val, c, d) == [val |-> val, chain |-> c, difficulty |-> d]

\* loadBlockchain: the loop over blockchainData.chain, acc being
\* blockchain.chain so far and t the time the constructors read.
RECURSIVE loadBlocks(_, _, _, _)
loadBlocks(data, d, t, acc) ==
  IF data = <<>> THEN LoadResult(RBlockchain, acc, d)
  ELSE LET blockData1 == data[1]
       IN IF blockData1.props # BlockProps THEN LoadResult(RNull, <<>>, d)
          ELSE LET block == NewBlock(blockData1.index, blockData1.data,
                                     blockData1.previousHash, d, t)
               IN IF block.hash = Throws THEN LoadResult(RNull, <<>>, d)
                  ELSE IF block.hash = Diverges THEN LoadResult(RNever, <<>>, d)
                  ELSE loadBlocks(Tail(data), d, t,
                         Append(acc, [block EXCEPT
                                        !.timestamp = DateParse(blockData1.timestamp),
                                        !.hash = blockData1.hash,
                                        !.nonce = blockData1.nonce]))

\* loadBlockchain without the validation of the chain it has rebuilt.
loadBlockchainUnvalidated(f, t) ==
  IF f.kind # "json" THEN LoadResult(RNull, <<>>, 0)
  ELSE LET d == IF Falsy(f.difficulty) THEN DefaultDifficulty ELSE f.difficulty.n
       IN IF createGenesisBlock(d, t, t).hash = Diverges
            THEN LoadResult(RNever, <<>>, d)
          ELSE LET r == loadBlocks(f.chain, d, t, <<>>)
               IN IF r.val # RBlockchain THEN r
                  ELSE IF r.chain = <<>> THEN LoadResult(RNull, <<>>, d)
                  ELSE r

\* loadBlockchain returning the chain it has rebuilt without reading its
\* latest block: an empty chain array gives an empty chain.
loadBlockchainAcceptsEmpty(f, t) ==
  IF f.kind # "json" THEN LoadResult(RNull, <<>>, 0)
  ELSE LET d == IF Falsy(f.difficulty) THEN DefaultDifficulty ELSE f.difficulty.n
       IN IF createGenesisBlock(d, t, t).hash = Diverges
            THEN LoadResult(RNever, <<>>, d)
          ELSE LET r == loadBlocks(f.chain, d, t, <<>>)
               IN IF r.val # RBlockchain THEN r
                  ELSE IF isChainValid(r.chain, d) # RBool(TRUE)
                    THEN LoadResult(RNull, <<>>, d)
                  ELSE r

\* loadBlockchain.  Every exception is caught and gives null: a file that
\* cannot be read, text that is not JSON, the TypeError of
\* getLatestBlock().hash on an empty chain.
loadBlockchain(f, t) ==
  IF f.kind # "json" THEN LoadResult(RNull, <<>>, 0)
  ELSE LET d == IF Falsy(f.difficulty) THEN DefaultDifficulty ELSE f.difficulty.n
       IN IF createGenesisBlock(d, t, t).hash = Diverges
            THEN LoadResult(RNever, <<>>, d)
          ELSE LET r == loadBlocks(f.chain, d, t, <<>>)
               IN IF r.val # RBlockchain THEN r
                  ELSE IF isChainValid(r.chain, d) # RBool(TRUE)
                    THEN LoadResult(RNull, <<>>, d)
                  ELSE IF r.chain = <<>> THEN LoadResult(RNull, <<>>, d)
                  ELSE r

\* The number of times loadBlockchain runs Block.mineBlock: once in
\* new Blockchain(...), for the genesis block it then discards, and once in
\* every new Block(...) of its loop, until a constructor throws or does
\* not return.
RECURSIVE loadBlocksMined(_, _, _)
loadBlocksMined(data, d, t) ==
  IF data = <<>> THEN 0
  ELSE IF data[1].props # BlockProps THEN 0
  ELSE IF ~Returned(NewBlock(data[1].index, data[1].data, data[1].previousHash, d, t))
    THEN 1
  ELSE 1 + loadBlocksMined(Tail(data), d, t)

loadBlockchainMined(f, t) ==
  IF f.kind # "json" THEN 0
  ELSE LET d == IF Falsy(f.difficulty) THEN DefaultDifficulty ELSE f.difficulty.n
       IN IF createGenesisBlock(d, t, t).hash = Diverges THEN 1
          ELSE 1 + loadBlocksMined(f.chain, d, t)

(***************************************************************************)
(* The REST API: the router (src/routes/blockRoutes.js), the handlers      *)
(* (src/controllers/blockController.js) and the error middleware           *)
(* (utils/errorHandler.js).                                                *)
(***************************************************************************)

\* v[key] for an object of a request body: undefined when it has no such key.
Get(v, key) ==
  IF v.t = "object" /\ \E i \in 1..Len(v.o) : v.o[i][1] = key
    THEN v.o[CHOOSE i \in 1..Len(v.o) : v.o[i][1] = key][2]
    ELSE Undefined

\* String.prototype.trim.
RECURSIVE trimStart(_)
trimStart(s) == IF s # <<>> /\ s[1] = " " THEN trimStart(Tail(s)) ELSE s
RECURSIVE trimEnd(_)
trimEnd(s) ==
  IF s # <<>> /\ s[Len(s)] = " " THEN trimEnd(SubSeq(s, 1, Len(s) - 1)) ELSE s
trim(s) == trimEnd(trimStart(s))

\* { ...o, ...extra } for the members of two objects: a key of extra takes
\* the place of the same key of o, a new key is added at the end.
RECURSIVE spread(_, _)
spread(o, extra) ==
  IF extra = <<>> THEN o
  ELSE LET key == extra[1][1]
           merged ==
             IF \E i \in 1..Len(o) : o[i][1] = key
               THEN [i \in 1..Len(o) |-> IF o[i][1] = key THEN extra[1] ELSE o[i]]
               ELSE Append(o, extra[1])
       IN spread(merged, Tail(extra))

\* createBlock: the transactionData it builds from a validated body.  t0 is
\* the time new Date() reads, t1 the time Date.now() reads, random the
\* characters taken from Math.random().
transactionData(body, t0, t1, random) ==
  LET sender == Get(body, "\"sender\":")
      receiver == Get(body, "\"receiver\":")
      amount == Get(body, "\"amount\":")
      metadata == Get(body, "\"metadata\":")
  IN Obj(<<<<"\"sender\":", Str(trim(sender.s))>>,
           <<"\"receiver\":", Str(trim(receiver.s))>>,
           <<"\"amount\":", amount>>,
           <<"\"metadata\":",
             Obj(spread(<<<<"\"timestamp\":", Str(toISOString(t0))>>,
                          <<"\"transactionId\":",
                            Str(<<"tx_">> \o NumToString(t1) \o <<"_">> \o random)>>>>,
                        IF metadata.t = "object" THEN metadata.o ELSE <<>>))>>>>)

\* createBlock: the message of the validation a body fails, <<>> for a body
\* that passes.
createBlockValidation(body) ==
  LET sender == Get(body, "\"sender\":")
      receiver == Get(body, "\"receiver\":")
      amount == Get(body, "\"amount\":")
  IN IF Falsy(sender) \/ Falsy(receiver) \/ amount = Undefined
       THEN <<"Missing required fields">>
     ELSE IF typeof(amount) # "number" \/ NumLt(amount, 0)
       THEN <<"Amount must be a positive number">>
     ELSE IF typeof(sender) # "string" \/ typeof(receiver) # "string"
       THEN <<"Sender and receiver must be strings">>
     ELSE <<>>

\* createError(message, statusCode, name).
createError(statusCode, name) == [statusCode |-> statusCode, name |-> name]

\* errorHandler: the status of the response it sends for an error.  The
\* status the error carries is replaced for the names the handler knows.
errorHandler(err) ==
  LET statusCode == IF err.statusCode = 0 THEN 500 ELSE err.statusCode
  IN IF err.name = "MiningError" THEN 500
     ELSE IF err.name = "BlockchainError" THEN 422
     ELSE IF err.name = "CastError" THEN 400
     ELSE IF err.name = "ValidationError" THEN 400
     ELSE statusCode

\* A response: its status and the data of its body (none for an error).
Response(status, data) == [status |-> status, data |-> data]

\* parseInt(s): the integer the leading characters of s spell, after white
\* space and a sign; NaN when no digit is there.  (No id of the model
\* starts with 0x or has more digits than a number holds exactly.)
IsDigit(c) == \E n \in 1..10 : DigitChars[n] = c
RECURSIVE leadingDigits(_)
leadingDigits(s) ==
  IF s # <<>> /\ IsDigit(s[1]) THEN <<s[1]>> \o leadingDigits(Tail(s)) ELSE <<>>
RECURSIVE digitsToNumber(_, _)
digitsToNumber(s, acc) ==
  IF s = <<>> THEN acc ELSE digitsToNumber(Tail(s), acc * 10 + DigitValue(s[1]))
parseInt(s) ==
  LET t == trimStart(s)
      negative == t # <<>> /\ t[1] = "-"
      digits == leadingDigits(IF t # <<>> /\ t[1] \in {"-", "+"} THEN Tail(t) ELSE t)
      n == digitsToNumber(digits, 0)
  IN IF digits = <<>> THEN NaN ELSE Num(IF negative THEN 0 - n ELSE n)

\* Number.prototype.toString for an integer.
numberToString(v) ==
  IF v.n < 0 THEN <<"-">> \o NumToString(0 - v.n) ELSE NumToString(v.n)

\* The router of /blocks: the handler of a request, path being what follows
\* /blocks in its URL, split at the slashes.  There is no route for stats:
\* GET /blocks/stats matches /:id.
route(method, path) ==
  IF path = <<>> /\ method = "GET" THEN "getAllBlocks"
  ELSE IF path = <<>> /\ method = "POST" THEN "createBlock"
  ELSE IF Len(path) = 1 /\ method = "GET" THEN "getBlockById"
  ELSE "notFound"

\* getBlockById: the lookup it makes for an id.
getBlockByIdLookup(c, id) ==
  LET numericId == parseInt(id)
  IN IF numericId.t # "nan" /\ numberToString(numericId) = id
       THEN getBlockByIndex(c, numericId)
       ELSE getBlockByHash(c, Str(id))


\* getBlockById: the response to GET /blocks/:id.
getBlockById(c, id) ==
  IF id = <<>> THEN Response(errorHandler(createError(400, "ValidationError")), <<>>)
  ELSE LET block == getBlockByIdLookup(c, id)
       IN IF block.kind # "block"
            THEN Response(errorHandler(createError(404, "BlockchainError")), <<>>)
          ELSE Response(200, <<blockData(c[block.n + 1])>>)

\* getAllBlocks: the response to GET /blocks.
getAllBlocks(c, d) ==
  IF isChainValid(c, d) = RThrows
    THEN Response(errorHandler(createError(500, "BlockchainError")), <<>>)
  ELSE Response(200, <<[blocks |-> [i \in 1..Len(c) |-> blockData(c[i])],
                        chainLength |-> getBlockCount(c),
                        isValid |-> isChainValid(c, d).b,
                        difficulty |-> d]>>)

\* getBlockchainStats: the response of the statistics handler.
getBlockchainStats(c, d) ==
  IF isChainValid(c, d) = RThrows
    THEN Response(errorHandler(createError(500, "BlockchainError")), <<>>)
  ELSE Response(200, <<[totalBlocks |-> getBlockCount(c),
                        difficulty |-> d,
                        isValid |-> isChainValid(c, d).b,
                        latestBlock |->
                          [index |-> getLatestBlock(c).index,
                           hash |-> getLatestBlock(c).hash,
                           timestamp |-> toISOString(getLatestBlock(c).timestamp)]]>>)

\* new Blockchain(4) of the controller, the 4 scaled with the length of a
\* digest.
InitialDifficulty == 2

\* What initializeBlockchain comes to: the chain was loaded or created, and
\* the save of a created chain succeeded or not.
RInitialized(loaded, saved) ==
  [kind |-> "initialized", b |-> saved, n |-> IF loaded THEN 1 ELSE 0, s |-> <<>>]

(***************************************************************************)
(* The inputs of the model.                                                *)
(***************************************************************************)
Difficulties == {1, 2}

P50 == Obj(<<<<"\"sender\":", Str(<<"Alice">>)>>, <<"\"amount\":", Num(50)>>>>)
P999 == Obj(<<<<"\"sender\":", Str(<<"Alice">>)>>, <<"\"amount\":", Num(999)>>>>)
\* P50 with one more key, whose value is undefined.
P50u ==
  Obj(<<<<"\"sender\":", Str(<<"Alice">>)>>, <<"\"amount\":", Num(50)>>,
        <<"\"metadata\":", Undefined>>>>)
\* A payload JSON.stringify cannot serialize.
PBig == Obj(<<<<"\"sender\":", Str(<<"Alice">>)>>, <<"\"amount\":", BigInt>>>>)

Payloads == {P50, P999, PBig}

\* The values a stored field is changed to from outside: a payload that can
\* be serialized; a string that is no digest, or the digest of the latest
\* block.
TamperPayloads == {P50, P999, P50u}
TamperHashes(c) == {<<"x">>} \cup {c[i].hash : i \in {j \in 1..Len(c) : j = Len(c)}}
\* The nonces a stored block is given together with the digest they yield.
TamperNonces == {0, 1, 2}

\* The values a reading of the clock can give, the clock standing at t.
ClockReads(t) == t..Min(t + 1, MaxClock)

IndexQueries ==
  {Num(n) : n \in -1..(MaxBlocks + 1)}
    \cup {Frac(-1), Frac(0), NaN, Infinity, Str(<<"1">>), Null, Undefined}

HashQueries(c) ==
  {Str(c[i].hash) : i \in 1..Len(c)}
    \cup {Str(<<"x">>), Str(<<>>), Null, Undefined, Num(1)}

(***************************************************************************)
(* The state machine.  chain = <<>> is the program before new Blockchain.  *)
(***************************************************************************)
NoArg == Undefined
NoCall == [op |-> "none", arg |-> NoArg, val |-> RUndefined]

\* The program is single-threaded: a call is made when the one before it
\* has returned and its caller has taken the result.
Idle == ret = NoCall

\* The fields of a block before the constructor has set any.
NoBlock ==
  [index |-> 0, timestamp |-> 0, data |-> Undefined, previousHash |-> <<>>,
   nonce |-> 0, difficulty |-> 0, hash |-> <<>>]
NoMiner == [pc |-> "idle", b |-> NoBlock]

\* blockchain.json.  kind says what reading it gives: "absent" (fs.access
\* fails), "empty" (nothing but white space), "invalid" (text JSON.parse
\* throws on), "nochain" (JSON without an array named chain), "unreadable"
\* (fs.readFile fails) or "json": an object with the difficulty and the chain
\* of block objects it holds.  saved is the Blockchain a saveBlockchain wrote
\* the file from, as long as nothing else has written to the file since.
NoFile == [kind |-> "absent", difficulty |-> Undefined, chain |-> <<>>, saved |-> <<>>]

\* The requests the server handles at the same time, and a request slot
\* that holds none.  pc is "free", "writing" (createBlock waits for
\* fs.writeFile) or "done" (the response is sent); status and data are the
\* response; block is the position of the block createBlock added and
\* snapshot the text saveBlockchain handed to fs.writeFile.
Requests == {"A", "B"}
NoRequest ==
  [pc |-> "free", method |-> "", path |-> <<>>, body |-> Undefined,
   status |-> 0, data |-> <<>>, block |-> 0, snapshot |-> NoFile]

Init ==
  /\ chain = <<>>
  /\ difficulty = 0
  /\ now = 0
  /\ ret = NoCall
  /\ tampered = <<>>
  /\ miner = NoMiner
  /\ file = NoFile
  /\ reqs = [r \in Requests |-> NoRequest]
  /\ backups = {}

\* new Blockchain(d).
Construct(d) ==
  /\ Idle
  /\ chain = <<>>
  /\ \E t0 \in ClockReads(now) : \E t1 \in ClockReads(t0) :
       \E genesisBlock \in {createGenesisBlock(d, t0, t1)} :
          /\ Returned(genesisBlock)
          /\ chain' = <<genesisBlock>>
          /\ difficulty' = d
          /\ now' = t1
  /\ ret' = [op |-> "constructor", arg |-> Num(d), val |-> RUndefined]
  /\ UNCHANGED <<tampered, miner, file, reqs, backups>>

\* addBlock putting the new block in the place of the last one.
AddBlockOverLast(data) ==
  /\ Idle
  /\ chain # <<>>
  /\ Len(chain) < MaxBlocks
  /\ \E t \in ClockReads(now) :
       \E newBlock \in {addBlock(chain, difficulty, data, t)} :
          /\ Returned(newBlock)
          /\ now' = t
          /\ chain' = [chain EXCEPT ![Len(chain)] = newBlock]
          /\ ret' = [op |-> "addBlock", arg |-> data, val |-> RUndefined]
  /\ UNCHANGED <<difficulty, tampered, miner, file, reqs, backups>>

\* addBlock pushing the block before it is mined: a call that throws has
\* already added it.
AddBlockPushesFirst(data) ==
  /\ Idle
  /\ chain # <<>>
  /\ Len(chain) < MaxBlocks
  /\ \E t \in ClockReads(now) :
       \E newBlock \in {addBlock(chain, difficulty, data, t)} :
          /\ newBlock.hash # Diverges
          /\ now' = t
          /\ chain' = Append(chain, newBlock)
          /\ ret' = [op |-> "addBlock", arg |-> data,
                     val |-> IF newBlock.hash = Throws THEN RThrows ELSE RUndefined]
  /\ UNCHANGED <<difficulty, tampered, miner, file, reqs, backups>>

\* blockchain.addBlock(data).  A call that throws leaves the chain alone.
AddBlock(data) ==
  /\ Idle
  /\ chain # <<>>
  /\ Len(chain) < MaxBlocks
  /\ \E t \in ClockReads(now) :
       \E newBlock \in {addBlock(chain, difficulty, data, t)} :
          /\ newBlock.hash # Diverges
          /\ now' = t
          /\ IF newBlock.hash = Throws
               THEN /\ chain' = chain
                    /\ ret' = [op |-> "addBlock", arg |-> data, val |-> RThrows]
               ELSE /\ chain' = Append(chain, newBlock)
                    /\ ret' = [op |-> "addBlock", arg |-> data, val |-> RUndefined]
  /\ UNCHANGED <<difficulty, tampered, miner, file, reqs, backups>>

\* isChainValid storing the digest it recomputes in the last block.
IsChainValidStoresDigest ==
  /\ Idle
  /\ chain # <<>>
  /\ ret' = [op |-> "isChainValid", arg |-> NoArg,
             val |-> isChainValid(chain, difficulty)]
  /\ chain' = [chain EXCEPT ![Len(chain)].hash = calculateHash(chain[Len(chain)])]
  /\ UNCHANGED <<difficulty, now, tampered, miner, file, reqs, backups>>

\* blockchain.isChainValid().
IsChainValid ==
  /\ Idle
  /\ chain # <<>>
  /\ ret' = [op |-> "isChainValid", arg |-> NoArg,
             val |-> isChainValid(chain, difficulty)]
  /\ UNCHANGED <<chain, difficulty, now, tampered, miner, file, reqs, backups>>

\* blockchain.getLatestBlock().
GetLatestBlock ==
  /\ Idle
  /\ chain # <<>>
  /\ ret' = [op |-> "getLatestBlock", arg |-> NoArg, val |-> RBlock(Len(chain) - 1)]
  /\ UNCHANGED <<chain, difficulty, now, tampered, miner, file, reqs, backups>>

\* blockchain.getBlockByIndex(index).
GetBlockByIndex(index) ==
  /\ Idle
  /\ chain # <<>>
  /\ ret' = [op |-> "getBlockByIndex", arg |-> index,
             val |-> getBlockByIndex(chain, index)]
  /\ UNCHANGED <<chain, difficulty, now, tampered, miner, file, reqs, backups>>

\* blockchain.getBlockByHash(hash).
GetBlockByHash(hash) ==
  /\ Idle
  /\ chain # <<>>
  /\ ret' = [op |-> "getBlockByHash", arg |-> hash,
             val |-> getBlockByHash(chain, hash)]
  /\ UNCHANGED <<chain, difficulty, now, tampered, miner, file, reqs, backups>>

\* blockchain.getBlockCount().
GetBlockCount ==
  /\ Idle
  /\ chain # <<>>
  /\ ret' = [op |-> "getBlockCount", arg |-> NoArg, val |-> RNum(getBlockCount(chain))]
  /\ UNCHANGED <<chain, difficulty, now, tampered, miner, file, reqs, backups>>

\* A mutation of a stored block from outside the class, as the tests make
\* it: blockchain.chain[i].hash = h, .previousHash = h, .data = data, each
\* to a value other than the stored one.  tampered records the mutation and
\* the block as it was; the model makes at most one.
TamperHash(i, h) ==
  /\ Idle
  /\ tampered = <<>>
  /\ i < Len(chain)
  /\ chain[i + 1].hash # h
  /\ chain' = [chain EXCEPT ![i + 1].hash = h]
  /\ tampered' = <<[pos |-> i, field |-> "hash", old |-> chain[i + 1]]>>
  /\ UNCHANGED <<difficulty, now, ret, miner, file, reqs, backups>>

TamperPreviousHash(i, h) ==
  /\ Idle
  /\ tampered = <<>>
  /\ i < Len(chain)
  /\ chain[i + 1].previousHash # h
  /\ chain' = [chain EXCEPT ![i + 1].previousHash = h]
  /\ tampered' = <<[pos |-> i, field |-> "previousHash", old |-> chain[i + 1]]>>
  /\ UNCHANGED <<difficulty, now, ret, miner, file, reqs, backups>>

TamperData(i, data) ==
  /\ Idle
  /\ tampered = <<>>
  /\ i < Len(chain)
  /\ chain[i + 1].data # data
  /\ chain' = [chain EXCEPT ![i + 1].data = data]
  /\ tampered' = <<[pos |-> i, field |-> "data", old |-> chain[i + 1]]>>
  /\ UNCHANGED <<difficulty, now, ret, miner, file, reqs, backups>>

\* A stored block is given another nonce and the digest that goes with it:
\* block.nonce = n; block.hash = the digest of the block with that nonce
\* (loadBlockchain sets both fields of a block from what a file holds).
\* Two fields are changed, and tampered records both.
TamperNonce(i, n) ==
  /\ Idle
  /\ tampered = <<>>
  /\ i < Len(chain)
  /\ chain[i + 1].nonce # n
  /\ LET block == [chain[i + 1] EXCEPT !.nonce = n]
     IN chain' = [chain EXCEPT ![i + 1] = [block EXCEPT !.hash = calculateHash(block)]]
  /\ tampered' = <<[pos |-> i, field |-> "nonce", old |-> chain[i + 1]],
                   [pos |-> i, field |-> "hash", old |-> chain[i + 1]]>>
  /\ UNCHANGED <<difficulty, now, ret, miner, file, reqs, backups>>

\* previousHash and nonce of a stored block are changed together: the first
\* digit of the nonce is taken off the nonce and put at the end of
\* previousHash (block.previousHash += '4'; block.nonce = 2 on a block with
\* the nonce 42).  The stored hash is left as it is.
TamperLinkAndNonce(i) ==
  /\ Idle
  /\ tampered = <<>>
  /\ i < Len(chain)
  /\ LET digits == NumToString(chain[i + 1].nonce)
     IN /\ Len(digits) >= 2
        /\ digits[2] # "0" \/ Len(digits) = 2
        /\ chain' = [chain EXCEPT ![i + 1].previousHash = @ \o <<digits[1]>>,
                                  ![i + 1].nonce = digitsToNumber(Tail(digits), 0)]
  /\ tampered' = <<[pos |-> i, field |-> "previousHash", old |-> chain[i + 1]],
                   [pos |-> i, field |-> "nonce", old |-> chain[i + 1]]>>
  /\ UNCHANGED <<difficulty, now, ret, miner, file, reqs, backups>>

\* object[key] = v on an object: the value of a key it has is replaced in
\* place, a key it has not is added at the end.
setMember(v, key, member) == Obj(spread(v.o, <<<<key, member>>>>))

\* The amounts a caller writes into a payload it still holds.
CallerAmounts == {Num(999)}

\* blockchain.addBlock(P) has returned and the caller assigns P.amount = v.
\* The constructor has stored P itself (this.data = data), so the object
\* the caller changes is the data of the block just added.
MutatePayload(v) ==
  /\ ret.op = "addBlock"
  /\ ret.val = RUndefined
  /\ tampered = <<>>
  /\ Get(ret.arg, "\"amount\":") # v
  /\ chain' = [chain EXCEPT ![Len(chain)].data = setMember(@, "\"amount\":", v)]
  /\ tampered' = <<[pos |-> Len(chain) - 1, field |-> "data", old |-> chain[Len(chain)]]>>
  /\ ret' = [op |-> "P.amount =", arg |-> v, val |-> RUndefined]
  /\ UNCHANGED <<difficulty, now, miner, file, reqs, backups>>

\* getLatestBlock, getBlockByIndex or getBlockByHash has returned a block
\* and the caller assigns block.data.amount = v.  The three methods return
\* the element of this.chain itself.
MutateReturnedBlock(v) ==
  /\ ret.op \in {"getLatestBlock", "getBlockByIndex", "getBlockByHash"}
  /\ ret.val.kind = "block"
  /\ tampered = <<>>
  /\ Get(chain[ret.val.n + 1].data, "\"amount\":") # v
  /\ chain' = [chain EXCEPT ![ret.val.n + 1].data = setMember(@, "\"amount\":", v)]
  /\ tampered' = <<[pos |-> ret.val.n, field |-> "data", old |-> chain[ret.val.n + 1]]>>
  /\ ret' = [op |-> "block.data.amount =", arg |-> v, val |-> RUndefined]
  /\ UNCHANGED <<difficulty, now, miner, file, reqs, backups>>

\* The caller takes the result of the call.
Return ==
  /\ ~Idle
  /\ ret' = NoCall
  /\ UNCHANGED <<chain, difficulty, now, tampered, miner, file, reqs, backups>>

\* The calls of a program that uses the class, and the scenario of the
\* tamper tests: a chain is built, one stored field is changed, the chain is
\* validated.
Untouched == tampered = <<>>

\* The digest h is stored in more than one block of the chain.
StoredTwice(h) ==
  \E i, j \in 1..Len(chain) : i # j /\ chain[i].hash = h /\ chain[j].hash = h

Next ==
  \/ \E d \in Difficulties : Construct(d)
  \/ Untouched /\ \E data \in Payloads : AddBlock(data)
  \/ IsChainValid
  \/ Untouched /\ GetLatestBlock
  \/ Untouched /\ \E index \in IndexQueries : GetBlockByIndex(index)
  \/ \E hash \in HashQueries(chain) :
       (Untouched \/ StoredTwice(hash.s)) /\ GetBlockByHash(hash)
  \/ Untouched /\ GetBlockCount
  \/ \E i \in 0..(MaxBlocks - 1) : \E h \in TamperHashes(chain) : TamperHash(i, h)
  \/ \E i \in 0..(MaxBlocks - 1) : \E h \in TamperHashes(chain) :
       TamperPreviousHash(i, h)
  \/ \E i \in 0..(MaxBlocks - 1) : \E data \in TamperPayloads : TamperData(i, data)
  \/ \E i \in 0..(MaxBlocks - 1) : \E n \in TamperNonces : TamperNonce(i, n)
  \/ \E i \in 0..(MaxBlocks - 1) : TamperLinkAndNonce(i)
  \/ \E v \in CallerAmounts : MutatePayload(v)
  \/ \E v \in CallerAmounts : MutateReturnedBlock(v)
  \/ Return

Spec == Init /\ [][Next]_vars

(***************************************************************************)
(* The program with its file: a chain is built and saved, the process      *)
(* exits, the file is perhaps written to by something else, and the next   *)
(* process loads it (blockController.initializeBlockchain).                *)
(***************************************************************************)
\* A payload with a number JSON cannot write: JSON.parse("1e999") is Infinity.
PInf == Obj(<<<<"\"sender\":", Str(<<"Alice">>)>>, <<"\"amount\":", Infinity>>>>)
FilePayloads == {P50, PInf}

\* The difficulty a file can hold: none, that of a chain, one no digest meets.
FileDifficulties == {Undefined, Num(1), Num(2), Num(HashLen + 1)}

\* The ways reading a file that holds no chain goes wrong.
BrokenFileKinds == {"empty", "invalid", "nochain", "unreadable"}

\* The lookups made of a chain being built.
FileIndexQueries == {Num(0), NaN}

\* saveBlockchain(blockchain).  fs.writeFile succeeds, fails with nothing
\* written, or fails with part of the text written.
SaveBlockchain ==
  /\ Idle
  /\ chain # <<>>
  /\ IF ~saveBlockchainPrepares(chain, difficulty)
       THEN /\ file' = file
            /\ ret' = [op |-> "saveBlockchain", arg |-> NoArg, val |-> RBool(FALSE)]
       ELSE \/ /\ file' = blockchainData(chain, difficulty)
               /\ ret' = [op |-> "saveBlockchain", arg |-> NoArg, val |-> RBool(TRUE)]
            \/ /\ file' = file
               /\ ret' = [op |-> "saveBlockchain", arg |-> NoArg, val |-> RBool(FALSE)]
            \/ /\ file' = [NoFile EXCEPT !.kind = "invalid"]
               /\ ret' = [op |-> "saveBlockchain", arg |-> NoArg, val |-> RBool(FALSE)]
  /\ UNCHANGED <<chain, difficulty, now, tampered, miner, reqs, backups>>

\* blockchain = await loadBlockchain(), in a process that holds no chain
\* yet.  The constructors loadBlockchain calls read the clock at `now`.
LoadBlockchain ==
  /\ Idle
  /\ chain = <<>>
  /\ \E r \in {loadBlockchain(file, now)} :
        /\ ret' = [op |-> "loadBlockchain", arg |-> NoArg, val |-> r.val]
        /\ IF r.val = RBlockchain
             THEN chain' = r.chain /\ difficulty' = r.difficulty
             ELSE UNCHANGED <<chain, difficulty>>
  /\ UNCHANGED <<now, tampered, miner, file, reqs, backups>>

\* The process ends: the chain it held in memory is gone.
Exit ==
  /\ Idle
  /\ chain # <<>>
  /\ chain' = <<>>
  /\ difficulty' = 0
  /\ UNCHANGED <<now, ret, tampered, miner, file, reqs, backups>>

\* What happens to a saved file while no process runs: it is deleted, or
\* replaced by something that holds no chain.
DeleteFile ==
  /\ Idle
  /\ chain = <<>>
  /\ file.saved # <<>>
  /\ file' = NoFile
  /\ UNCHANGED <<chain, difficulty, now, ret, tampered, miner, reqs, backups>>

BreakFile(kind) ==
  /\ Idle
  /\ chain = <<>>
  /\ file.saved # <<>>
  /\ file' = [NoFile EXCEPT !.kind = kind]
  /\ UNCHANGED <<chain, difficulty, now, ret, tampered, miner, reqs, backups>>

\* ... or one thing in it is edited: the difficulty; the first block object
\* is removed; the hash or the data of a block object is replaced; the
\* nonce of a block object is removed.
EditDifficulty(v) ==
  /\ Idle
  /\ chain = <<>>
  /\ file.saved # <<>>
  /\ file.difficulty # v
  /\ file' = [file EXCEPT !.difficulty = v, !.saved = <<>>]
  /\ UNCHANGED <<chain, difficulty, now, ret, tampered, miner, reqs, backups>>

DropFirstBlock ==
  /\ Idle
  /\ chain = <<>>
  /\ file.saved # <<>>
  /\ file' = [file EXCEPT !.chain = Tail(@), !.saved = <<>>]
  /\ UNCHANGED <<chain, difficulty, now, ret, tampered, miner, reqs, backups>>

EditBlockHash(i) ==
  /\ Idle
  /\ chain = <<>>
  /\ file.saved # <<>>
  /\ i < Len(file.chain)
  /\ file' = [file EXCEPT !.chain[i + 1].hash = <<"x">>, !.saved = <<>>]
  /\ UNCHANGED <<chain, difficulty, now, ret, tampered, miner, reqs, backups>>

EditBlockData(i, data) ==
  /\ Idle
  /\ chain = <<>>
  /\ file.saved # <<>>
  /\ i < Len(file.chain)
  /\ file.chain[i + 1].data # data
  /\ file' = [file EXCEPT !.chain[i + 1].data = data, !.saved = <<>>]
  /\ UNCHANGED <<chain, difficulty, now, ret, tampered, miner, reqs, backups>>

StripBlockNonce(i) ==
  /\ Idle
  /\ chain = <<>>
  /\ file.saved # <<>>
  /\ i < Len(file.chain)
  /\ file' = [file EXCEPT !.chain[i + 1].props = @ \ {"nonce"}, !.saved = <<>>]
  /\ UNCHANGED <<chain, difficulty, now, ret, tampered, miner, reqs, backups>>

\* A chain is built while there is no file and saved once; a chain loaded
\* from an edited file is appended to, once.  The edits of a block object
\* are made to the first one and to the last one.  The difficulty no digest meets is
\* written into files of one block.  A call that never returns hands
\* nothing back.
FileNext ==
  \/ \E d \in Difficulties : file.kind = "absent" /\ Construct(d)
  \/ \E data \in FilePayloads :
       /\ file.kind = "absent" \/ (file.saved = <<>> /\ Len(chain) = Len(file.chain))
       /\ AddBlock(data)
  \/ file.kind = "absent" /\ IsChainValid
  \/ \E index \in FileIndexQueries : file.kind = "absent" /\ GetBlockByIndex(index)
  \/ file.kind = "absent" /\ chain # <<>>
       /\ GetBlockByHash(Str(getLatestBlock(chain).hash))
  \/ file.kind = "absent" /\ GetBlockCount
  \/ file.kind = "absent" /\ SaveBlockchain
  \/ Exit
  \/ LoadBlockchain
  \/ DeleteFile
  \/ \E kind \in BrokenFileKinds : BreakFile(kind)
  \/ \E v \in FileDifficulties :
       (v.n > HashLen => Len(file.chain) = 1) /\ EditDifficulty(v)
  \/ DropFirstBlock
  \/ \E i \in {0, Len(file.chain) - 1} : EditBlockHash(i)
  \/ \E i \in {0, Len(file.chain) - 1} : EditBlockData(i, P999)
  \/ \E i \in {0, Len(file.chain) - 1} : StripBlockNonce(i)
  \/ ret.val # RNever /\ Return

FileSpec == Init /\ [][FileNext]_vars

(***************************************************************************)
(* The server: initializeBlockchain runs when the controller module is     *)
(* loaded, before the server listens; then requests arrive.  A handler     *)
(* runs without interruption up to its first await, which only createBlock *)
(* has (await saveBlockchain); what follows the await runs when            *)
(* fs.writeFile has settled, and the writes of several requests settle in  *)
(* any order.                                                              *)
(***************************************************************************)
\* The bodies of POST /blocks: one that passes validation (its sender is to
\* be trimmed, its amount is 0, its metadata replaces the transactionId),
\* and one for each way of failing it.
Body(sender, receiver, amount) ==
  Obj(<<<<"\"sender\":", sender>>, <<"\"receiver\":", receiver>>,
        <<"\"amount\":", amount>>>>)
BMeta ==
  Obj(<<<<"\"sender\":", Str(<<" ", "Alice", " ">>)>>, <<"\"receiver\":", Str(<<"Bob">>)>>,
        <<"\"amount\":", Num(0)>>,
        <<"\"metadata\":", Obj(<<<<"\"transactionId\":", Str(<<"x">>)>>>>)>>>>)
ValidBodies == {BMeta}
InvalidBodies ==
  {Obj(<<<<"\"receiver\":", Str(<<"Bob">>)>>, <<"\"amount\":", Num(50)>>>>),
   Obj(<<<<"\"sender\":", Str(<<"Alice">>)>>, <<"\"amount\":", Num(50)>>>>),
   Obj(<<<<"\"sender\":", Str(<<"Alice">>)>>, <<"\"receiver\":", Str(<<"Bob">>)>>>>),
   Body(Str(<<>>), Str(<<"Bob">>), Num(50)),
   Body(Str(<<"Alice">>), Str(<<"Bob">>), Num(0 - 1)),
   Body(Str(<<"Alice">>), Str(<<"Bob">>), Str(<<"5", "0">>)),
   Body(Str(<<"Alice">>), Str(<<"Bob">>), Null),
   Body(Num(1), Str(<<"Bob">>), Num(50)),
   Body(Str(<<"Alice">>), Obj(<<>>), Num(50))}
Bodies == ValidBodies \cup InvalidBodies

\* The values the clock gives while requests are handled: the requests of
\* one run of the server arrive within one tick of it.
RequestClockReads(t) == {t}

\* The characters createBlock takes from Math.random().
RandomIds == {<<"a">>}

\* The ids of GET /blocks/:id: the index and the hash of the first and of
\* the last block, an index past the end, a negative one, texts that are no
\* canonical decimal, a hash of no block, and stats.
BlockIds(c) ==
  {NumToString(c[i].index) : i \in {1, Len(c)}} \cup {c[i].hash : i \in {1, Len(c)}}
    \cup {<<"9">>, <<"-", "1">>, <<"0", "1">>, <<"1", "x">>, <<"x">>, <<"stats">>}

\* initializeBlockchain reading the file and then saving what it has read.
InitializeBlockchainResaves ==
  /\ Idle
  /\ chain = <<>>
  /\ \A r \in Requests : reqs[r].pc = "free"
  /\ \E loaded \in {loadBlockchain(file, now)} :
       IF loaded.val = RNever
         THEN /\ ret' = [op |-> "initializeBlockchain", arg |-> NoArg, val |-> RNever]
              /\ UNCHANGED <<chain, difficulty, now, file>>
       ELSE IF loaded.val = RBlockchain
         THEN /\ chain' = loaded.chain
              /\ difficulty' = loaded.difficulty
              /\ file' = blockchainData(loaded.chain, loaded.difficulty)
              /\ ret' = [op |-> "initializeBlockchain", arg |-> NoArg,
                         val |-> RInitialized(TRUE, TRUE)]
              /\ UNCHANGED now
       ELSE \E t0 \in ClockReads(now) : \E t1 \in ClockReads(t0) :
              \E genesisBlock \in {createGenesisBlock(InitialDifficulty, t0, t1)} :
                 /\ Returned(genesisBlock)
                 /\ chain' = <<genesisBlock>>
                 /\ difficulty' = InitialDifficulty
                 /\ now' = t1
                 /\ \/ /\ file' = blockchainData(<<genesisBlock>>, InitialDifficulty)
                       /\ ret' = [op |-> "initializeBlockchain", arg |-> NoArg,
                                  val |-> RInitialized(FALSE, TRUE)]
                    \/ /\ file' \in {file, [NoFile EXCEPT !.kind = "invalid"]}
                       /\ ret' = [op |-> "initializeBlockchain", arg |-> NoArg,
                                  val |-> RInitialized(FALSE, FALSE)]
  /\ UNCHANGED <<tampered, miner, reqs, backups>>

\* await initializeBlockchain(): the chain of the file when loadBlockchain
\* returns one, else new Blockchain(4) and a save of it.  (Nothing in the
\* try block throws, so the catch block never runs.)
InitializeBlockchain ==
  /\ Idle
  /\ chain = <<>>
  /\ \A r \in Requests : reqs[r].pc = "free"
  /\ \E loaded \in {loadBlockchain(file, now)} :
       IF loaded.val = RNever
         THEN /\ ret' = [op |-> "initializeBlockchain", arg |-> NoArg, val |-> RNever]
              /\ UNCHANGED <<chain, difficulty, now, file>>
       ELSE IF loaded.val = RBlockchain
         THEN /\ chain' = loaded.chain
              /\ difficulty' = loaded.difficulty
              /\ ret' = [op |-> "initializeBlockchain", arg |-> NoArg,
                         val |-> RInitialized(TRUE, FALSE)]
              /\ UNCHANGED <<now, file>>
       ELSE \E t0 \in ClockReads(now) : \E t1 \in ClockReads(t0) :
              \E genesisBlock \in {createGenesisBlock(InitialDifficulty, t0, t1)} :
                 /\ Returned(genesisBlock)
                 /\ chain' = <<genesisBlock>>
                 /\ difficulty' = InitialDifficulty
                 /\ now' = t1
                 /\ \/ /\ file' = blockchainData(<<genesisBlock>>, InitialDifficulty)
                       /\ ret' = [op |-> "initializeBlockchain", arg |-> NoArg,
                                  val |-> RInitialized(FALSE, TRUE)]
                    \/ /\ file' \in {file, [NoFile EXCEPT !.kind = "invalid"]}
                       /\ ret' = [op |-> "initializeBlockchain", arg |-> NoArg,
                                  val |-> RInitialized(FALSE, FALSE)]
  /\ UNCHANGED <<tampered, miner, reqs, backups>>

\* The response of createBlock once saveBlockchain has settled.
createBlockResponse(c, d, position, saved) ==
  Response(201, <<[block |-> blockData(c[position + 1]),
                   chainLength |-> getBlockCount(c),
                   difficulty |-> d,
                   persisted |-> saved]>>)

\* createBlock appending before it validates the body.
CreateBlockAppendsFirst(r, body) ==
  /\ Idle
  /\ chain # <<>>
  /\ reqs[r].pc = "free"
  /\ Len(chain) < MaxBlocks
  /\ createBlockValidation(body) # <<>>
  /\ \E t \in RequestClockReads(now) :
       \E newBlock \in {addBlock(chain, difficulty, P50, t)} :
          /\ Returned(newBlock)
          /\ now' = t
          /\ chain' = Append(chain, newBlock)
  /\ reqs' = [reqs EXCEPT ![r] =
                [NoRequest EXCEPT !.pc = "done", !.method = "POST", !.body = body,
                                  !.status = errorHandler(createError(400, "ValidationError"))]]
  /\ UNCHANGED <<difficulty, ret, tampered, miner, file, backups>>

\* createBlock linking the new block to the head an unfinished request saw
\* before its own append: the head is read before an await.
CreateBlockStaleHead(r, body) ==
  /\ Idle
  /\ chain # <<>>
  /\ reqs[r].pc = "free"
  /\ createBlockValidation(body) = <<>>
  /\ Len(chain) < MaxBlocks
  /\ \E t \in RequestClockReads(now) : \E random \in RandomIds :
       \E head \in {IF \E q \in Requests : reqs[q].pc = "writing"
                      THEN SubSeq(chain, 1, Len(chain) - 1) ELSE chain} :
       \E newBlock \in {addBlock(head, difficulty, transactionData(body, t, t, random), t)} :
          /\ Returned(newBlock)
          /\ now' = t
          /\ chain' = Append(chain, newBlock)
          /\ reqs' = [reqs EXCEPT ![r] =
                        [NoRequest EXCEPT !.pc = "writing", !.method = "POST",
                                          !.body = body, !.block = Len(chain),
                                          !.snapshot = blockchainData(chain', difficulty)]]
  /\ UNCHANGED <<difficulty, ret, tampered, miner, file, backups>>

\* POST /blocks, createBlock up to its await: the body is validated; a valid
\* one is made into transactionData, the block is mined and pushed, and
\* saveBlockchain builds the text it hands to fs.writeFile.
CreateBlock(r, body) ==
  /\ Idle
  /\ chain # <<>>
  /\ reqs[r].pc = "free"
  /\ route("POST", <<>>) = "createBlock"
  /\ IF createBlockValidation(body) # <<>>
       THEN /\ reqs' = [reqs EXCEPT ![r] =
                          [NoRequest EXCEPT
                             !.pc = "done", !.method = "POST", !.body = body,
                             !.status = errorHandler(createError(400, "ValidationError"))]]
            /\ UNCHANGED <<chain, now>>
       ELSE /\ Len(chain) < MaxBlocks
            /\ \E t0 \in RequestClockReads(now) : \E t1 \in RequestClockReads(t0) :
                 \E t2 \in RequestClockReads(t1) : \E random \in RandomIds :
                 \E newBlock \in {addBlock(chain, difficulty,
                                           transactionData(body, t0, t1, random), t2)} :
                    /\ newBlock.hash # Diverges
                    /\ now' = t2
                    /\ IF newBlock.hash = Throws
                         THEN /\ chain' = chain
                              /\ reqs' = [reqs EXCEPT ![r] =
                                            [NoRequest EXCEPT
                                               !.pc = "done", !.method = "POST", !.body = body,
                                               !.status = errorHandler(createError(500, "MiningError"))]]
                       ELSE IF ~saveBlockchainPrepares(Append(chain, newBlock), difficulty)
                         THEN /\ chain' = Append(chain, newBlock)
                              /\ reqs' = [reqs EXCEPT ![r] =
                                            [NoRequest EXCEPT
                                               !.pc = "done", !.method = "POST", !.body = body,
                                               !.block = Len(chain), !.status = 201,
                                               !.data = createBlockResponse(chain', difficulty,
                                                                            Len(chain), FALSE).data]]
                       ELSE /\ chain' = Append(chain, newBlock)
                            /\ reqs' = [reqs EXCEPT ![r] =
                                          [NoRequest EXCEPT
                                             !.pc = "writing", !.method = "POST", !.body = body,
                                             !.block = Len(chain),
                                             !.snapshot = blockchainData(chain', difficulty)]]
  /\ UNCHANGED <<difficulty, ret, tampered, miner, file, backups>>

\* fs.writeFile of a createBlock request settles, and the handler sends its
\* response.  The write succeeds and leaves the text it was given; or it
\* fails, with nothing or with part of the text written; or it succeeds
\* while the write of another request is under way, and the file is left
\* with text of both.
FinishCreateBlock(r) ==
  /\ Idle
  /\ reqs[r].pc = "writing"
  /\ \E saved \in BOOLEAN :
       /\ IF saved
            THEN \/ file' = reqs[r].snapshot
                 \/ /\ \E q \in Requests \ {r} : reqs[q].pc = "writing"
                    /\ file' = [NoFile EXCEPT !.kind = "invalid"]
            ELSE file' \in {file, [NoFile EXCEPT !.kind = "invalid"]}
       /\ reqs' = [reqs EXCEPT ![r] =
                     [@ EXCEPT !.pc = "done", !.status = 201,
                               !.data = createBlockResponse(chain, difficulty,
                                                            reqs[r].block, saved).data]]
  /\ UNCHANGED <<chain, difficulty, now, ret, tampered, miner, backups>>

\* GET /blocks/<id>.
GetBlockById(r, id) ==
  /\ Idle
  /\ chain # <<>>
  /\ reqs[r].pc = "free"
  /\ route("GET", <<id>>) = "getBlockById"
  /\ reqs' = [reqs EXCEPT ![r] =
                [NoRequest EXCEPT !.pc = "done", !.method = "GET", !.path = <<id>>,
                                  !.status = getBlockById(chain, id).status,
                                  !.data = getBlockById(chain, id).data]]
  /\ UNCHANGED <<chain, difficulty, now, ret, tampered, miner, file, backups>>

\* GET /blocks.
GetAllBlocks(r) ==
  /\ Idle
  /\ chain # <<>>
  /\ reqs[r].pc = "free"
  /\ route("GET", <<>>) = "getAllBlocks"
  /\ reqs' = [reqs EXCEPT ![r] =
                [NoRequest EXCEPT !.pc = "done", !.method = "GET",
                                  !.status = getAllBlocks(chain, difficulty).status,
                                  !.data = getAllBlocks(chain, difficulty).data]]
  /\ UNCHANGED <<chain, difficulty, now, ret, tampered, miner, file, backups>>

\* The clients have their responses: the requests that were handled
\* together are over.
CloseAll ==
  /\ \E r \in Requests : reqs[r].pc = "done"
  /\ \A r \in Requests : reqs[r].pc # "writing"
  /\ reqs' = [r \in Requests |-> NoRequest]
  /\ UNCHANGED <<chain, difficulty, now, ret, tampered, miner, file, backups>>

\* No request is being handled.
NoRequests == \A r \in Requests : reqs[r].pc = "free"

\* The slot a new request takes: the first one that is free, while no
\* response waits to be taken.
FreeSlot(r) ==
  /\ reqs[r].pc = "free"
  /\ r = "A" \/ reqs["A"].pc # "free"
  /\ \A q \in Requests : reqs[q].pc # "done"

\* Lookups are made while no other request is under way (a lookup has no
\* await).  Between two runs of the server the file is deleted, broken, or
\* edited: the first block object is removed from a file that starts with
\* the genesis block, the hash of the last block object is replaced.
HttpNext ==
  \/ InitializeBlockchain
  \/ \E r \in Requests, body \in Bodies : FreeSlot(r) /\ CreateBlock(r, body)
  \/ \E r \in Requests : FinishCreateBlock(r)
  \/ chain # <<>> /\ \E id \in BlockIds(chain) : NoRequests /\ GetBlockById("A", id)
  \/ NoRequests /\ GetAllBlocks("A")
  \/ CloseAll
  \/ NoRequests /\ Exit
  \/ DeleteFile
  \/ BreakFile("invalid")
  \/ file.chain # <<>> /\ file.chain[1].index = 0 /\ DropFirstBlock
  \/ EditBlockHash(Len(file.chain) - 1)
  \/ ret.val # RNever /\ Return

HttpSpec == Init /\ [][HttpNext]_vars

(***************************************************************************)
(* The Block constructor, one iteration of the mining loop at a time.      *)
(***************************************************************************)
MinerIndexes == {0, 1, 12}
MinerPayloads == {P50, P999, PBig}
MinerPreviousHashes == {<<"0">>, <<"0", "0", "a", "1">>}
MinerDifficulties == 0..(HashLen + 1)

\* new Block(index, data, previousHash, d) up to the call of mineBlock.
BlockConstructor(index, data, previousHash, d) ==
  /\ miner.pc = "idle"
  /\ \E t \in ClockReads(now) :
       /\ now' = t
       /\ miner' = [pc |-> "searching",
                    b |-> [index |-> index, timestamp |-> t, data |-> data,
                           previousHash |-> previousHash, nonce |-> 0,
                           difficulty |-> d, hash |-> <<>>]]
  /\ UNCHANGED <<chain, difficulty, ret, tampered, file, reqs, backups>>

\* MineStep counting the successful attempt too: the nonce is incremented
\* once more before the digest is returned.
MineStepStaleHash ==
  /\ miner.pc = "searching"
  /\ LET target == Zeros(miner.b.difficulty)
         hash == calculateHash(miner.b)
     IN IF hash = Throws
          THEN miner' = [miner EXCEPT !.pc = "thrown"]
        ELSE IF substring0(hash, miner.b.difficulty) = target
          THEN miner' = [pc |-> "solved",
                         b |-> [miner.b EXCEPT !.hash = hash, !.nonce = Increment(@)]]
        ELSE miner' = [miner EXCEPT !.b.nonce = Increment(@)]
  /\ UNCHANGED <<chain, difficulty, now, ret, tampered, file, reqs, backups>>

\* MineStep going two nonces on after a digest that fails.
MineStepSkipsNonce ==
  /\ miner.pc = "searching"
  /\ LET target == Zeros(miner.b.difficulty)
         hash == calculateHash(miner.b)
     IN IF hash = Throws
          THEN miner' = [miner EXCEPT !.pc = "thrown"]
        ELSE IF substring0(hash, miner.b.difficulty) = target
          THEN miner' = [pc |-> "solved", b |-> [miner.b EXCEPT !.hash = hash]]
        ELSE miner' = [miner EXCEPT !.b.nonce = Increment(Increment(@))]
  /\ UNCHANGED <<chain, difficulty, now, ret, tampered, file, reqs, backups>>

\* One iteration of the loop of mineBlock, and this.hash = its result when
\* it returns.
MineStep ==
  /\ miner.pc = "searching"
  /\ LET target == Zeros(miner.b.difficulty)
         hash == calculateHash(miner.b)
     IN IF hash = Throws
          THEN miner' = [miner EXCEPT !.pc = "thrown"]
        ELSE IF substring0(hash, miner.b.difficulty) = target
          THEN miner' = [pc |-> "solved", b |-> [miner.b EXCEPT !.hash = hash]]
        ELSE miner' = [miner EXCEPT !.b.nonce = Increment(@)]
  /\ UNCHANGED <<chain, difficulty, now, ret, tampered, file, reqs, backups>>

\* The caller drops the block (or catches the exception); another is built.
MinerReset ==
  /\ miner.pc \in {"solved", "thrown"}
  /\ miner' = NoMiner
  /\ UNCHANGED <<chain, difficulty, now, ret, tampered, file, reqs, backups>>

\* block.calculateHash() on the block the constructor returned.
CalculateHash ==
  /\ Idle
  /\ miner.pc = "solved"
  /\ ret' = [op |-> "calculateHash", arg |-> NoArg,
             val |-> RString(calculateHash(miner.b))]
  /\ UNCHANGED <<chain, difficulty, now, tampered, miner, file, reqs, backups>>

MineNext ==
  \/ \E index \in MinerIndexes, data \in MinerPayloads,
        previousHash \in MinerPreviousHashes, d \in MinerDifficulties :
       Idle /\ BlockConstructor(index, data, previousHash, d)
  \/ MineStep
  \/ Idle /\ MinerReset
  \/ CalculateHash
  \/ Return

MineSpec == Init /\ [][MineNext]_vars

(***************************************************************************)
(* The claims.                                                             *)
(***************************************************************************)

\* s starts with n characters '0'.
LeadingZeros(s, n) == Len(s) >= n /\ \A k \in 1..n : s[k] = "0"

\* C1: after new Blockchain(d) and any number of addBlock calls, with no
\* mutation from outside, every block after the first holds the hash of the
\* block before it as previousHash, its hash is the digest recomputed from
\* its fields and starts with d characters '0', and isChainValid() is true.
C1_ChainValidity ==
  (chain # <<>> /\ Untouched) =>
    /\ \A i \in 1..(Len(chain) - 1) :
         /\ chain[i + 1].previousHash = chain[i].hash
         /\ chain[i + 1].hash = calculateHash(chain[i + 1])
         /\ LeadingZeros(chain[i + 1].hash, difficulty)
    /\ isChainValid(chain, difficulty) = RBool(TRUE)
    /\ (ret.op = "isChainValid" => ret.val = RBool(TRUE))

C1_Witness ==
  /\ Untouched
  /\ Len(chain) = 3
  /\ difficulty = 2
  /\ chain[3].nonce > 0
  /\ ret.op = "isChainValid"

\* C2: when the Block constructor returns, the block's hash is
\* calculateHash() of its final fields and its first `difficulty`
\* characters are all '0'.
C2_MiningPostcondition ==
  miner.pc = "solved" =>
    /\ miner.b.hash = calculateHash(miner.b)
    /\ LeadingZeros(miner.b.hash, miner.b.difficulty)

C2_Witness ==
  /\ miner.pc = "solved"
  /\ miner.b.difficulty = 2
  /\ miner.b.nonce > 9

\* One stored field has been changed; the block it was changed in.
TamperedOnce == Len(tampered) = 1
TamperedBlock == chain[tampered[1].pos + 1]

MinerSerializable == JSONstringify(miner.b.data) # Throws

\* The loop can no longer leave the state it is in: the digest for the
\* current nonce does not start with `difficulty` characters '0', and
\* nonce++ leaves the nonce as it is, so every further iteration computes
\* the same digest.
MinerStuck ==
  /\ miner.pc = "searching"
  /\ MinerSerializable
  /\ ~LeadingZeros(calculateHash(miner.b), miner.b.difficulty)
  /\ Increment(miner.b.nonce) = miner.b.nonce

\* C5: mining terminates: for every payload that can be serialized and every
\* difficulty d >= 1, the mining loop reaches the solved state and returns a
\* digest that starts with d characters '0'; the loop is therefore never in
\* a state that it can only repeat.
C5_MiningTerminates ==
  (miner.pc = "searching" /\ MinerSerializable /\ miner.b.difficulty >= 1)
    => ~MinerStuck

\* Block i (i >= 1) of the chain c passes the three checks of isChainValid.
PassesChecks(c, d, i) ==
  /\ c[i + 1].hash = calculateHash(c[i + 1])
  /\ c[i + 1].previousHash = c[i].hash
  /\ LeadingZeros(c[i + 1].hash, d)

\* C6: isChainValid() returns true exactly when every block at a position
\* i >= 1 passes the three checks (stored hash = recomputed hash,
\* previousHash = stored hash of block i - 1, stored hash starts with
\* `difficulty` characters '0') and false otherwise; the answer is decided
\* at the lowest-positioned failing block (the blocks up to it make an
\* invalid chain, the blocks before it a valid one); a chain holding only
\* the first block is valid.
C6_ValidateDecision ==
  /\ ret.op = "isChainValid" =>
       LET failing == {i \in 1..(Len(chain) - 1) : ~PassesChecks(chain, difficulty, i)}
       IN IF failing = {} THEN ret.val = RBool(TRUE)
          ELSE LET lowest == CHOOSE i \in failing : \A j \in failing : i <= j
               IN /\ ret.val = RBool(FALSE)
                  /\ isChainValid(SubSeq(chain, 1, lowest + 1), difficulty) = RBool(FALSE)
                  /\ isChainValid(SubSeq(chain, 1, lowest), difficulty) = RBool(TRUE)
  /\ (chain # <<>> => isChainValid(SubSeq(chain, 1, 1), difficulty) = RBool(TRUE))

\* isChainValid() has answered false on a chain in which every hash is the
\* recomputed one and every link holds: only the leading zeros are missing.
C6_Witness ==
  /\ ret.op = "isChainValid"
  /\ ret.val = RBool(FALSE)
  /\ Len(chain) = 3
  /\ \A i \in 1..2 :
       /\ chain[i + 1].hash = calculateHash(chain[i + 1])
       /\ chain[i + 1].previousHash = chain[i].hash
  /\ ~LeadingZeros(chain[3].hash, difficulty)

\* The first block holds a correctly computed digest that starts with
\* `difficulty` characters '0', and "0" as previousHash.
GenesisSound ==
  /\ chain[1].hash = calculateHash(chain[1])
  /\ LeadingZeros(chain[1].hash, difficulty)
  /\ chain[1].previousHash = <<"0">>

\* C7: isChainValid() returns false whenever the first block's stored hash
\* differs from its recomputed hash, lacks the difficulty prefix, or its
\* previousHash is not "0", for chains of any length.
C7_GenesisChecked ==
  (ret.op = "isChainValid" /\ ~GenesisSound) => ret.val = RBool(FALSE)

\* C8: new Blockchain(d) yields a chain of exactly one block, with index 0,
\* previousHash "0", a hash that is the digest of its fields and starts with
\* d characters '0', and difficulty d.
C8_ConstructPostcondition ==
  ret.op = "constructor" =>
    /\ Len(chain) = 1
    /\ chain[1].index = 0
    /\ chain[1].previousHash = <<"0">>
    /\ chain[1].hash = calculateHash(chain[1])
    /\ LeadingZeros(chain[1].hash, ret.arg.n)
    /\ difficulty = ret.arg.n
    /\ getBlockCount(chain) = 1

C8_Witness ==
  /\ ret.op = "constructor"
  /\ ret.arg = Num(2)
  /\ chain[1].nonce > 0

\* C9: getBlockByIndex(i) returns the block stored at position i when i is
\* an integer with 0 <= i < chain length, and null for every other input:
\* negative numbers, numbers >= length, non-integer numbers, NaN and values
\* that are not numbers.
C9_GetBlockByIndexTotal ==
  ret.op = "getBlockByIndex" =>
    IF ret.arg.t = "number" /\ 0 <= ret.arg.n /\ ret.arg.n < Len(chain)
      THEN ret.val = RBlock(ret.arg.n)
      ELSE ret.val = RNull

\* h is a string that is not empty.
NonEmptyString(h) == h.t = "string" /\ h.s # <<>>

\* What C10 says getBlockByHash(h) returns on the chain c.
LowestWithHash(c, h) ==
  IF NonEmptyString(h) /\ \E i \in 1..Len(c) : c[i].hash = h.s
    THEN RBlock((CHOOSE i \in 1..Len(c) :
                   /\ c[i].hash = h.s
                   /\ \A j \in 1..(i - 1) : c[j].hash # h.s) - 1)
    ELSE RNull

\* C10: getBlockByHash(h) returns the lowest-positioned block whose stored
\* hash equals h, and null when h is empty, null, not a string, or the hash
\* of no block; in a chain built by the constructor and addBlock the hashes
\* of the blocks are pairwise distinct and getBlockByHash(b.hash) is b for
\* every block b.
C10_GetBlockByHash ==
  /\ ret.op = "getBlockByHash" => ret.val = LowestWithHash(chain, ret.arg)
  /\ \A h \in HashQueries(chain) : getBlockByHash(chain, h) = LowestWithHash(chain, h)
  /\ Untouched =>
       /\ \A i, j \in 1..Len(chain) : chain[i].hash = chain[j].hash => i = j
       /\ \A i \in 1..Len(chain) :
            getBlockByHash(chain, Str(chain[i].hash)) = RBlock(i - 1)

\* getBlockByHash has returned the first of two blocks that hold the digest
\* asked for.
C10_Witness ==
  /\ ret.op = "getBlockByHash"
  /\ Len(chain) = 3
  /\ chain[1].hash # ret.arg.s
  /\ chain[2].hash = ret.arg.s
  /\ chain[3].hash = ret.arg.s
  /\ ret.val = RBlock(1)

\* Two blocks hold the same index, timestamp, data, previousHash and nonce.
SameHashedFields(b1, b2) ==
  /\ b1.index = b2.index
  /\ b1.timestamp = b2.timestamp
  /\ b1.data = b2.data
  /\ b1.previousHash = b2.previousHash
  /\ b1.nonce = b2.nonce

\* The block of the miner with another difficulty and another stored hash.
MinerVariants ==
  {[miner.b EXCEPT !.difficulty = d, !.hash = h] :
     d \in MinerDifficulties, h \in {<<>>, <<"x">>, miner.b.hash}}

\* The digest depends on the five hashed fields only, and a call of
\* calculateHash returns it.
C11_SameDigest ==
  /\ \A b \in MinerVariants :
       SameHashedFields(b, miner.b) /\ calculateHash(b) = calculateHash(miner.b)
  /\ ret.op = "calculateHash" =>
       /\ miner.pc = "solved"
       /\ ret.val = RString(miner.b.hash)
       /\ \A b \in MinerVariants : ret.val = RString(calculateHash(b))

\* C11: calculateHash is a deterministic pure function of the block's
\* fields: blocks with the same index, timestamp, data, previousHash and
\* nonce have the same digest, whatever else they hold, and a call of
\* calculateHash returns that digest and changes no field of the block.
C11_HashDeterministic ==
  /\ []C11_SameDigest
  /\ [][ret'.op = "calculateHash" => miner' = miner /\ chain' = chain]_vars

C11_Witness ==
  /\ ret.op = "calculateHash"
  /\ miner.b.difficulty = 2
  /\ miner.b.nonce > 9
  /\ ret.val.s = miner.b.hash

\* The calls that read the chain or append to it.
ReadOrAppendOps ==
  {"addBlock", "isChainValid", "getLatestBlock", "getBlockByIndex",
   "getBlockByHash", "getBlockCount", "saveBlockchain"}

\* C12: the chain is append-only: a call of addBlock, isChainValid,
\* getBlockByIndex, getBlockByHash, getBlockCount or saveBlockchain never
\* lowers the number of blocks and leaves every block that was there at its
\* position, with the same index, timestamp, data, previousHash, nonce and
\* hash.
C12_AppendOnly ==
  [][(ret.op = "none" /\ ret'.op \in ReadOrAppendOps) =>
       /\ Len(chain') >= Len(chain)
       /\ SubSeq(chain', 1, Len(chain)) = chain]_vars

C12_Witness ==
  /\ ret.op = "saveBlockchain"
  /\ ret.val = RBool(TRUE)
  /\ Len(chain) = 3
  /\ file.saved = <<[chain |-> chain, difficulty |-> difficulty]>>

\* C13: addBlock is all-or-nothing: a call in which building the block
\* throws (the payload cannot be serialized) leaves the chain exactly as it
\* was, and a call throws only then.
C13_AppendAllOrNothing ==
  [][(ret.op = "none" /\ ret'.op = "addBlock") =>
       /\ ret'.val = RThrows <=> JSONstringify(ret'.arg) = Throws
       /\ ret'.val = RThrows => chain' = chain /\ difficulty' = difficulty
       /\ ret'.val # RThrows => Len(chain') = Len(chain) + 1]_vars

C13_Witness ==
  /\ ret.op = "addBlock"
  /\ ret.val = RThrows
  /\ ret.arg = PBig
  /\ Len(chain) = 2

\* C14: the Block constructor rejects a negative index, a difficulty below 1
\* and an empty previousHash: no block is handed back for such arguments.
C14_InvalidInputRejected ==
  miner.pc = "solved" =>
    /\ miner.b.index >= 0
    /\ miner.b.difficulty >= 1
    /\ miner.b.previousHash # <<>>

\* The file is as a successful saveBlockchain of a chain of difficulty >= 1
\* left it; the chain that was saved.
FileIntact == file.saved # <<>> /\ file.saved[1].difficulty >= 1
SavedChain == file.saved[1].chain

\* C15: persistence round trip: loadBlockchain() after a successful
\* saveBlockchain(c) returns a chain with the difficulty of c, as many blocks,
\* and at every position the same index, timestamp, data, previousHash,
\* hash and nonce.
C15_RoundTrip ==
  (ret.op = "loadBlockchain" /\ FileIntact) =>
    /\ ret.val = RBlockchain
    /\ difficulty = file.saved[1].difficulty
    /\ Len(chain) = Len(SavedChain)
    /\ \A i \in 1..Len(SavedChain) :
         /\ chain[i].index = SavedChain[i].index
         /\ chain[i].timestamp = SavedChain[i].timestamp
         /\ chain[i].data = SavedChain[i].data
         /\ chain[i].previousHash = SavedChain[i].previousHash
         /\ chain[i].hash = SavedChain[i].hash
         /\ chain[i].nonce = SavedChain[i].nonce

\* loadBlockchain() has returned a chain from the file saveBlockchain wrote,
\* and the data of a block is not the data that was saved.
C15_Witness ==
  /\ ret.op = "loadBlockchain"
  /\ ret.val = RBlockchain
  /\ FileIntact
  /\ Len(chain) = 2
  /\ SavedChain[2].data = PInf
  /\ chain[2].data = JSONroundTrip(PInf)
  /\ chain[2].data # PInf

\* The difficulty loadBlockchain takes from the file, and the chain the
\* block objects of the file describe.
FileDifficulty == IF Falsy(file.difficulty) THEN DefaultDifficulty ELSE file.difficulty.n
FileChain ==
  [i \in 1..Len(file.chain) |->
     [index |-> file.chain[i].index,
      timestamp |-> DateParse(file.chain[i].timestamp),
      data |-> file.chain[i].data,
      previousHash |-> file.chain[i].previousHash,
      nonce |-> file.chain[i].nonce,
      difficulty |-> FileDifficulty,
      hash |-> file.chain[i].hash]]

\* The file holds a chain of complete block objects that fails validation.
FileChainInvalid ==
  /\ file.kind = "json"
  /\ \A i \in 1..Len(file.chain) : file.chain[i].props = BlockProps
  /\ \E i \in 1..(Len(file.chain) - 1) : ~PassesChecks(FileChain, FileDifficulty, i)

C17_CorruptDistinctFromAbsent ==
  (ret.op = "loadBlockchain" /\ FileChainInvalid) =>
    ret.val # loadBlockchain(NoFile, now).val

\* C18: saveBlockchain resolves to true or false and loadBlockchain to a
\* chain or null, whatever the file holds and whatever I/O fails.
C18_PersistenceTotal ==
  /\ ret.op = "saveBlockchain" => ret.val \in {RBool(TRUE), RBool(FALSE)}
  /\ ret.op = "loadBlockchain" => ret.val \in {RBlockchain, RNull}

\* C19: a block's index is its position in the chain the program holds.
C19_IndexIsPosition ==
  \A i \in 1..Len(chain) : chain[i].index = i - 1

\* C20: the difficulty is fixed at construction: addBlock, isChainValid, the
\* lookups and saveBlockchain leave it as it is, and the block addBlock adds
\* is the one the Block constructor mines at the difficulty of the chain.
C20_DifficultyFixed ==
  [][(ret.op = "none" /\ ret'.op \in ReadOrAppendOps) =>
       /\ difficulty' = difficulty
       /\ (ret'.op = "addBlock" /\ ret'.val = RUndefined) =>
            LET newBlock == chain'[Len(chain')]
            IN /\ newBlock.difficulty = difficulty
               /\ LeadingZeros(newBlock.hash, difficulty)
               /\ newBlock = NewBlock(newBlock.index, newBlock.data,
                                      newBlock.previousHash, difficulty,
                                      newBlock.timestamp)]_vars

C20_Witness ==
  /\ ret.op = "addBlock"
  /\ ret.val = RUndefined
  /\ difficulty = 2
  /\ Len(chain) = 3
  /\ chain[3].difficulty = 2
  /\ chain[3].nonce > 0
  /\ file.kind = "json"

\* The result of isChainValid() is the one a call made now would give, and
\* it is true on a chain no one has written to from outside.
C21_SameResultAgain ==
  ret.op = "isChainValid" =>
    /\ ret.val = isChainValid(chain, difficulty)
    /\ Untouched => ret.val = RBool(TRUE)

\* C21: validation is read-only and idempotent: a call of isChainValid()
\* changes no block, not the number of blocks and not the difficulty, so a
\* further call on the chain it leaves returns the same result; on a chain
\* built by the constructor and addBlock the result is true.
C21_ValidateReadOnly ==
  /\ []C21_SameResultAgain
  /\ [][ret'.op = "isChainValid" =>
          chain' = chain /\ difficulty' = difficulty /\ tampered' = tampered]_vars

\* isChainValid() has answered false, on a chain changed from outside, and
\* would answer false again.
C21_Witness ==
  /\ ret.op = "isChainValid"
  /\ ret.val = RBool(FALSE)
  /\ Len(chain) = 3
  /\ ~Untouched
  /\ isChainValid(chain, difficulty) = RBool(FALSE)

\* The digest of the block being mined, with the nonce n, passes the test of
\* the mining loop.
MinerPasses(n) ==
  LeadingZeros(calculateHash([miner.b EXCEPT !.nonce = n]), miner.b.difficulty)

\* The block the constructor returned holds the least nonce whose digest
\* passes: every nonce below it was tried and failed, as many failed
\* attempts as the nonce says.
C28_LeastNonce ==
  miner.pc = "solved" =>
    /\ MinerPasses(miner.b.nonce)
    /\ \A n \in 0..(miner.b.nonce - 1) : ~MinerPasses(n)

\* What a step does to the nonce of the block being built.
C28_NonceStep ==
  /\ (miner.pc = "idle" /\ miner'.pc = "searching") => miner'.b.nonce = 0
  /\ (miner.pc = "searching" /\ miner'.pc = "searching") =>
       /\ ~MinerPasses(miner.b.nonce)
       /\ miner'.b = [miner.b EXCEPT !.nonce = miner.b.nonce + 1]
  /\ (miner.pc = "searching" /\ miner'.pc = "solved") =>
       /\ MinerPasses(miner.b.nonce)
       /\ miner'.b.nonce = miner.b.nonce
  /\ (miner.pc = "solved" /\ miner'.pc = "solved") => miner'.b = miner.b

\* C28: mining tries the nonces in order: the constructor starts at nonce
\* 0, an iteration whose digest fails the test adds exactly 1 to the nonce
\* and goes on, an iteration whose digest passes keeps the nonce and
\* returns, so the nonce of the block returned is the least one whose digest
\* passes and the number of failed attempts; no call changes the nonce of
\* the block once it is returned.
C28_NoncesInOrder == []C28_LeastNonce /\ [][C28_NonceStep]_vars

\* A block is returned after more than nine failed attempts, and its digest
\* is asked for again.
C28_Witness ==
  /\ miner.pc = "solved"
  /\ miner.b.difficulty = 2
  /\ miner.b.nonce > 9
  /\ \A n \in 0..(miner.b.nonce - 1) : ~MinerPasses(n)
  /\ ret.op = "calculateHash"
  /\ miner.b.index = 12

\* C30: loadBlockchain rebuilds each block from its stored fields without
\* running the proof-of-work search: no call of mineBlock is made during a
\* load, and the load comes to an end whatever difficulty the file holds.
C30_LoadBypassesMining ==
  ret.op = "loadBlockchain" =>
    /\ loadBlockchainMined(file, now) = 0
    /\ ret.val # RNever

\* loadBlockchain() does not come to an end: the file holds a difficulty no
\* digest meets, and the load has started mining the genesis block of
\* new Blockchain(difficulty).
C30_Witness ==
  /\ ret.op = "loadBlockchain"
  /\ ret.val = RNever
  /\ file.difficulty = Num(HashLen + 1)
  /\ loadBlockchainMined(file, now) = 1

\* A createBlock request that has added a block to the chain.
Created(r) ==
  /\ reqs[r].method = "POST"
  /\ \/ reqs[r].pc = "writing"
     \/ reqs[r].pc = "done" /\ reqs[r].status = 201

\* C22: the appends made through the HTTP layer are serialized: whatever
\* the interleaving of createBlock requests, each one reads the head and
\* pushes its block with no append of another request in between, so the
\* block of every request links to the block right before it, no two blocks
\* of the chain carry the same previousHash, and the chain in memory is
\* valid.
C22_AppendsSerialized ==
  chain # <<>> =>
    /\ \A i, j \in 1..Len(chain) :
         chain[i].previousHash = chain[j].previousHash => i = j
    /\ isChainValid(chain, difficulty) = RBool(TRUE)
    /\ \A r \in Requests :
         Created(r) =>
           /\ reqs[r].block >= 1
           /\ reqs[r].block < Len(chain)
           /\ chain[reqs[r].block + 1].previousHash = chain[reqs[r].block].hash
           /\ chain[reqs[r].block + 1].index = chain[reqs[r].block].index + 1

\* Two createBlock requests wait for their writes, each having added a
\* block.
C22_Witness ==
  /\ reqs["A"].pc = "writing"
  /\ reqs["B"].pc = "writing"
  /\ reqs["A"].block = 1
  /\ reqs["B"].block = 2
  /\ Len(chain) = 3
  /\ chain[3].previousHash = chain[2].hash
  /\ chain[3].previousHash # chain[2].previousHash

\* Every createBlock request of the ones handled together has been answered,
\* and each of them was told that the chain is saved.
AllSaved ==
  /\ \A r \in Requests : reqs[r].pc # "writing"
  /\ \E r \in Requests : Created(r)
  /\ \A r \in Requests : Created(r) => reqs[r].data[1].persisted

\* C23: auto-save keeps the file in step with memory: once every
\* createBlock request under way has been answered with a successful save,
\* blockchain.json holds every block of the chain in memory.
C23_FileInStep ==
  AllSaved =>
    /\ file.kind = "json"
    /\ Len(file.chain) >= Len(chain)
    /\ \A i \in 1..Len(chain) : file.chain[i] = blockData(chain[i])

\* Two requests were answered with persisted: true, and the file holds the
\* chain without the block of the second one.
C23_Witness ==
  /\ AllSaved
  /\ Created("A")
  /\ Created("B")
  /\ Len(chain) = 3
  /\ file.kind = "json"
  /\ Len(file.chain) = 2

\* What a run of initializeBlockchain that comes to an end leaves.
C24_StartupStep ==
  (Idle /\ ret'.op = "initializeBlockchain" /\ ret'.val # RNever) =>
    /\ chain' # <<>>
    /\ IF loadBlockchain(file, now).val = RBlockchain
         THEN /\ chain' = loadBlockchain(file, now).chain
              /\ difficulty' = loadBlockchain(file, now).difficulty
              /\ file' = file
              /\ ret'.val = RInitialized(TRUE, FALSE)
         ELSE /\ Len(chain') = 1
              /\ difficulty' = InitialDifficulty
              /\ chain'[1].index = 0
              /\ chain'[1].previousHash = <<"0">>
              /\ chain'[1].hash = calculateHash(chain'[1])
              /\ LeadingZeros(chain'[1].hash, InitialDifficulty)
              /\ ret'.val \in {RInitialized(FALSE, TRUE), RInitialized(FALSE, FALSE)}
              /\ ret'.val.b => file' = blockchainData(chain', difficulty')
              /\ ~ret'.val.b => file' \in {file, [NoFile EXCEPT !.kind = "invalid"]}

\* C24: startup ends with a usable chain: when initializeBlockchain has
\* completed, the chain of the controller is not null; it is the chain
\* loadBlockchain returned whenever it returned one, and the file is then
\* not written; otherwise it is a new chain of the initial difficulty that
\* holds the genesis block only, and a save of it has been attempted.
C24_StartupUsable ==
  /\ [](ret.op = "initializeBlockchain" /\ ret.val # RNever => chain # <<>>)
  /\ [][C24_StartupStep]_vars

\* initializeBlockchain has found a file that holds no valid chain, has made
\* a new chain and has written it over the file.
C24_Witness ==
  /\ ret.op = "initializeBlockchain"
  /\ ret.val = RInitialized(FALSE, TRUE)
  /\ now = 0
  /\ Len(chain) = 1
  /\ file.saved = <<[chain |-> chain, difficulty |-> InitialDifficulty]>>
  /\ chain[1].timestamp = 0

\* The request in slot r is an answered GET /blocks/<id>.
Looked(r) == reqs[r].pc = "done" /\ reqs[r].method = "GET" /\ Len(reqs[r].path) = 1

\* C25: GET /blocks/:id for an id that matches no block, an index out of
\* range or a hash no block holds, is answered with status 404.
C25_MissIs404 ==
  \A r \in Requests :
    (Looked(r) /\ getBlockByIdLookup(chain, reqs[r].path[1]).kind # "block") =>
      reqs[r].status = 404

\* GET /blocks/9 on a chain of three blocks is answered with status 422.
C25_Witness ==
  /\ Looked("A")
  /\ reqs["A"].path = <<<<"9">>>>
  /\ Len(chain) = 3
  /\ reqs["A"].status = 422
  /\ reqs["A"].data = <<>>

\* C26: GET /blocks/stats is answered by the statistics handler: status 200
\* with totalBlocks, difficulty, isValid and the index, hash and timestamp
\* of the latest block.
C26_StatsRouted ==
  \A r \in Requests :
    (Looked(r) /\ reqs[r].path = <<<<"stats">>>>) =>
      /\ reqs[r].status = 200
      /\ reqs[r].data = getBlockchainStats(chain, difficulty).data

\* GET /blocks/stats is answered as the lookup of a block with the hash
\* "stats", which no block holds.
C26_Witness ==
  /\ Looked("A")
  /\ reqs["A"].path = <<<<"stats">>>>
  /\ route("GET", reqs["A"].path) = "getBlockById"
  /\ reqs["A"].status = errorHandler(createError(404, "BlockchainError"))
  /\ reqs["A"].data = <<>>

\* The text is the canonical decimal of an integer: digits without a
\* leading zero, after a minus sign for a negative one.
CanonicalDecimal(id) ==
  LET digits == IF id # <<>> /\ id[1] = "-" THEN Tail(id) ELSE id
  IN /\ digits # <<>>
     /\ \A k \in 1..Len(digits) : IsDigit(digits[k])
     /\ digits[1] = "0" => (Len(digits) = 1 /\ id = digits)

\* C27: retrieval by index or hash through one endpoint: for every block b
\* of the chain of the controller, GET /blocks/<decimal of b.index> and
\* GET /blocks/<b.hash> are answered with b; an id is looked up as an index
\* exactly when it is the canonical decimal of an integer, as a hash
\* otherwise.
C27_RetrieveByIndexOrHash ==
  \A r \in Requests :
    Looked(r) =>
      LET id == reqs[r].path[1]
      IN /\ \A i \in 1..Len(chain) :
              (id = NumToString(chain[i].index) \/ id = chain[i].hash) =>
                /\ reqs[r].status = 200
                /\ reqs[r].data = <<blockData(chain[i])>>
         /\ getBlockByIdLookup(chain, id) =
              IF CanonicalDecimal(id)
                THEN getBlockByIndex(chain, parseInt(id))
                ELSE getBlockByHash(chain, Str(id))

\* GET /blocks/1 on a chain whose first block has the index 1 is answered
\* with the block of index 2.
C27_Witness ==
  /\ Looked("A")
  /\ reqs["A"].path = <<<<"1">>>>
  /\ Len(chain) = 2
  /\ chain[1].index = 1
  /\ reqs["A"].status = 200
  /\ reqs["A"].data = <<blockData(chain[2])>>
  /\ chain[2].index = 2

\* What the arrival of a createBlock request whose body fails validation
\* does.
C29_RejectStep ==
  \A r \in Requests :
    ( /\ reqs[r].pc = "free"
      /\ reqs'[r].pc # "free"
      /\ reqs'[r].method = "POST"
      /\ createBlockValidation(reqs'[r].body) # <<>> ) =>
        /\ reqs'[r].pc = "done"
        /\ reqs'[r].status = 400
        /\ reqs'[r].data = <<>>
        /\ reqs'[r].snapshot = NoFile
        /\ chain' = chain
        /\ difficulty' = difficulty
        /\ file' = file
        /\ \A q \in Requests \ {r} : reqs'[q] = reqs[q]

\* C29: a createBlock request whose body fails validation (sender,
\* receiver or amount missing; amount not a number or negative; sender or
\* receiver not a string) is answered with an error and has no effect: no
\* block is mined or appended, the chain is unchanged and no save is
\* attempted.
C29_InvalidRequestNoEffect ==
  /\ [](\A r \in Requests :
          (reqs[r].method = "POST" /\ createBlockValidation(reqs[r].body) # <<>>) =>
            (reqs[r].pc = "done" /\ reqs[r].status = 400))
  /\ [][C29_RejectStep]_vars

\* A request with a negative amount is rejected while the write of another
\* request is under way.
C29_Witness ==
  /\ reqs["A"].pc = "writing"
  /\ reqs["B"].pc = "done"
  /\ reqs["B"].status = 400
  /\ Get(reqs["B"].body, "\"amount\":") = Num(0 - 1)
  /\ Len(chain) = 2
  /\ file.kind = "json"
  /\ Len(file.chain) = 1

\* The blocks a change from outside has been made to: as they are now and
\* as they were.
ChangedBlocks ==
  {<<chain[tampered[k].pos + 1], tampered[k].old>> : k \in 1..Len(tampered)}

\* C31: the text handed to SHA-256 is an unambiguous encoding of the
\* fields of the block: a block that differs from what it was in at least
\* one of index, timestamp, data, previousHash and nonce gives another
\* text, so that a change of several fields of a block at once cannot leave
\* its recomputed digest as it was.
C31_EncodingUnambiguous ==
  \A pair \in ChangedBlocks :
    ~SameHashedFields(pair[1], pair[2]) =>
      /\ blockString(pair[1]) # blockString(pair[2])
      /\ calculateHash(pair[1]) # calculateHash(pair[2])

\* previousHash and nonce of a block other than the first have been changed
\* together, and the digest of the block is still the stored one.
C31_Witness ==
  /\ Len(tampered) = 2
  /\ tampered[1].field = "previousHash"
  /\ tampered[2].field = "nonce"
  /\ tampered[1].pos >= 1
  /\ chain[tampered[1].pos + 1].previousHash # tampered[1].old.previousHash
  /\ chain[tampered[1].pos + 1].nonce # tampered[1].old.nonce
  /\ chain[tampered[1].pos + 1].data = tampered[1].old.data
  /\ calculateHash(chain[tampered[1].pos + 1]) = chain[tampered[1].pos + 1].hash
  /\ ret.op = "isChainValid"

\* The assignments a caller makes to an object it holds.
CallerWrites == {"P.amount =", "block.data.amount ="}

\* What a caller's change to the payload it passed in, or to a block it
\* was handed, does to the chain.
C32_CallerChange ==
  (ret'.op \in CallerWrites /\ ret.op \notin CallerWrites) =>
    /\ Len(chain') = Len(chain)
    /\ \A i \in 1..Len(chain) : chain'[i].data = chain[i].data
    /\ isChainValid(chain, difficulty) = RBool(TRUE) =>
         isChainValid(chain', difficulty) = RBool(TRUE)

\* C32: stored blocks are isolated from their callers: after addBlock(P)
\* has returned, a change the caller makes to the object P, or to a block
\* object it got from getBlockByIndex, getBlockByHash or getLatestBlock,
\* changes no stored payload of the chain and cannot turn isChainValid()
\* from true to false.
C32_StoredBlocksIsolated == [][C32_CallerChange]_vars

\* The caller has changed the amount of the payload it had passed to
\* addBlock; the block added holds the new amount and the chain, valid
\* before, is not valid any more.
C32_Witness ==
  /\ ret.op = "P.amount ="
  /\ Len(chain) = 2
  /\ Get(chain[2].data, "\"amount\":") = Num(999)
  /\ Get(tampered[1].old.data, "\"amount\":") = Num(50)
  /\ isChainValid(<<chain[1], tampered[1].old>>, difficulty) = RBool(TRUE)
  /\ isChainValid(chain, difficulty) = RBool(FALSE)

\* C33: every 201 response of createBlock describes the block that request
\* appended and agrees with itself: data.block is the block the request
\* added, and data.chainLength = data.block.index + 1, whatever the
\* interleaving of createBlock requests.
C33_ResponseDescribesOwnBlock ==
  \A r \in Requests :
    (Created(r) /\ reqs[r].pc = "done") =>
      /\ reqs[r].data[1].block = blockData(chain[reqs[r].block + 1])
      /\ reqs[r].data[1].chainLength = reqs[r].data[1].block.index + 1

\* The request that added the block of index 1 is answered with a chain
\* length of 3: another request added a block while the first one was
\* waiting for its write.
C33_Witness ==
  /\ Created("A")
  /\ reqs["A"].pc = "done"
  /\ reqs["B"].pc = "writing"
  /\ chain[1].index = 0
  /\ reqs["A"].data[1].block = blockData(chain[2])
  /\ reqs["A"].data[1].block.index = 1
  /\ reqs["A"].data[1].chainLength = 3

\* What a run of initializeBlockchain that comes to an end has read and
\* what it leaves, as to the number of blocks.
C34_StartupStep ==
  (Idle /\ ret'.op = "initializeBlockchain" /\ ret'.val # RNever) =>
    LET loaded == loadBlockchain(file, now)
    IN /\ loaded.val = RBlockchain => loaded.chain # <<>>
       /\ (file.kind = "json" /\ file.chain = <<>>) =>
            (loaded.val = RNull /\ ret'.val.n = 0 /\ Len(chain') = 1)
       /\ chain' # <<>>
       /\ getLatestBlock(chain') \in {chain'[i] : i \in 1..Len(chain')}

\* C34: every chain loadBlockchain returns has at least one block (a file
\* whose chain array is empty is not taken as a chain), so that after
\* startup getLatestBlock() is defined and no createBlock request fails
\* for want of a block to append to.
C34_LoadedChainNotEmpty ==
  /\ [](\A r \in Requests :
          reqs[r].pc # "free" =>
            /\ chain # <<>>
            /\ reqs[r].status < 500
            /\ (reqs[r].method = "POST" /\ createBlockValidation(reqs[r].body) = <<>>) =>
                 (reqs[r].pc = "writing" \/ reqs[r].status = 201))
  /\ [][C34_StartupStep]_vars

\* Startup has found a file whose chain array is empty, has not taken it
\* as a chain, and holds a new chain of one block (the save of which
\* failed, so the file is still there).
C34_Witness ==
  /\ ret.op = "initializeBlockchain"
  /\ ret.val = RInitialized(FALSE, FALSE)
  /\ file.kind = "json"
  /\ file.chain = <<>>
  /\ Len(chain) = 1
  /\ chain[1].index = 0

\* Startup finds a file that loadBlockchain does not take as a chain and
\* writes a new chain over it.
C35_Overwrite ==
  /\ Idle
  /\ ret'.op = "initializeBlockchain"
  /\ file.kind # "absent"
  /\ loadBlockchain(file, now).val = RNull
  /\ file' = blockchainData(chain', difficulty')

\* C35: persisted data is never destroyed silently: whenever startup finds
\* a blockchain file that the load rejects and replaces it by the save of a
\* new chain of the genesis block only, a backup copy of what the file held
\* has been made before the file is overwritten.
C35_BackupBeforeOverwrite ==
  [][C35_Overwrite =>
       (file \in backups' /\ backupBlockchain(file, backups).backups \subseteq backups')]_vars

\* Startup has written a new chain over the file, nothing was backed up.
C35_Witness ==
  /\ ret.op = "initializeBlockchain"
  /\ ret.val = RInitialized(FALSE, TRUE)
  /\ now = 1
  /\ file = blockchainData(chain, difficulty)
  /\ Len(chain) = 1
  /\ chain[1].timestamp = 1
  /\ backups = {}

\* The object v with its keys inserted in the opposite order: the same keys
\* with the same values.
KeysReversed(v) ==
  IF v.t # "object" THEN v
  ELSE Obj([i \in 1..Len(v.o) |-> v.o[Len(v.o) + 1 - i]])

\* Two objects hold the same keys with the same values.
SameMembers(v, w) ==
  /\ v.t = "object"
  /\ w.t = "object"
  /\ {v.o[i] : i \in 1..Len(v.o)} = {w.o[i] : i \in 1..Len(w.o)}
  /\ Len(v.o) = Len(w.o)

\* C36: the serialization of the payload has a stable key order: a block
\* whose payload has the same keys and the same values as that of another
\* block, inserted in another order, has the same digest when all other
\* fields are the same.
C36_KeyOrderStable ==
  (miner.pc = "solved" /\ SameMembers(miner.b.data, KeysReversed(miner.b.data))) =>
    calculateHash([miner.b EXCEPT !.data = KeysReversed(@)]) = calculateHash(miner.b)

\* A block mined with {sender, amount}; the block with {amount, sender}
\* and the same other fields has another text to hash and another digest.
C36_Witness ==
  /\ miner.pc = "solved"
  /\ miner.b.data = P50
  /\ KeysReversed(P50) # P50
  /\ SameMembers(P50, KeysReversed(P50))
  /\ JSONstringify(KeysReversed(P50)) # JSONstringify(P50)
  /\ calculateHash([miner.b EXCEPT !.data = KeysReversed(P50)]) # miner.b.hash
  /\ calculateHash(miner.b) = miner.b.hash

====
